---- MODULE Spec2Model ----
(***************************************************************************)
(* A model of abc-plus-maestro's playback core: the Sequencer              *)
(* (audio/Sequencer.ts), the FMSynth voice bookkeeping (audio/FMSynth.ts)  *)
(* and the AudioSessionManager singleton (audio/AudioSessionManager.ts),   *)
(* together with the browser's timer queue they run on, and of the         *)
(* MaestroPlayer (main.ts) that drives them from the page's controls.      *)
(*                                                                         *)
(* Time.  Every duration of the code is a multiple of 25 ms for the        *)
(* inputs used here, so time is counted in clock units of 25 ms:           *)
(* 1 s = 40 units.  `clock' is the wall clock; an AudioContext created at  *)
(* wall time b reads currentTime = clock - b (the context is taken to be   *)
(* running from its creation).  setTimeout callbacks run in the order the  *)
(* HTML timer rules give (by due time, then by creation) and run before    *)
(* the clock moves past their due time; calls from the user may come       *)
(* between any two callbacks.                                              *)
(*                                                                         *)
(* Objects.  AudioContext, FMSynth and Sequencer objects are created       *)
(* together (AudioSessionManager.prime) and share one index: ctx[s],       *)
(* synth[s], seq[s].  Note ids are strings in the code and naturals here;  *)
(* the fields midiNote and velocity only reach the audio graph and are     *)
(* kept out of the flattened events.                                       *)
(*                                                                         *)
(* Observers.  `obs' and `last' record what happened (the phase of §4.5,   *)
(* the events handed to the synth, the operation of the last step); no     *)
(* operation of the program reads them.                                    *)
(*                                                                         *)
(* Parsers.  The second half of the module models the three parsers        *)
(* (parser/MIDIParser.ts, parser/ABCPlusParser.ts and the MusicXMLParser)  *)
(* on their own variables `midi', `abc' and `xml'; the playback variables  *)
(* stay at rest while a parser runs, and the other way round.              *)
(***************************************************************************)
EXTENDS Integers, Sequences, FiniteSets, TLC

VARIABLES
    clock,      \* wall clock, in units of 25 ms
    ctx,        \* ctx[s]: wall time at which AudioContext s was created
    seq,        \* seq[s]: the fields of Sequencer s
    synth,      \* synth[s]: the fields of FMSynth s
    timers,     \* the pending setTimeout callbacks
    nextTimer,  \* the next setTimeout handle
    mgr,        \* the AudioSessionManager singleton
    player,     \* the MaestroPlayer: its state and the text of its input
    obs,        \* obs[s]: observer of Sequencer s
    last,       \* observer: the operation of the last step
    faults,     \* the notes whose dispatch or highlight callback throws
    midi,       \* MIDIParser: the bytes, the read position, the results
    abc,        \* ABCPlusParser: the line, the scan position, the elements
    xml         \* MusicXMLParser: its fields, and the latest parse() call

vars == <<clock, ctx, seq, synth, timers, nextTimer, mgr, player, obs, last,
          faults, midi, abc, xml>>

\* The variables of the parsers and of the environment's faults.
parsers == <<faults, midi, abc, xml>>

\* The variables of the playback core.
playback ==
    <<clock, ctx, seq, synth, timers, nextTimer, mgr, player, obs, last>>

----------------------------------------------------------------------------
(* Bounds of the model *)

MaxClock == 6       \* the clock stops here
MaxCalls == 4       \* calls made on the Sequencer's (or the manager's) API

(* Program constants, in clock units of 25 ms *)

lookahead == 1            \* 25 ms
scheduleAheadTime == 4    \* 0.1 s
maxPolyphony == 16
release == 12             \* 0.3 s
releaseTail == 4          \* the 0.1 s added to release in noteOff
releaseOverlap == 2       \* the 0.05 s subtracted in scheduleNote

Max(a, b) == IF a >= b THEN a ELSE b

Range(f) == {f[i] : i \in DOMAIN f}

\* The one value of a one-element set: Only({e(x) : x \in {v}}) is e(v) with v
\* computed once, as a `const' of the code is.
Only(S) == CHOOSE x \in S : TRUE

----------------------------------------------------------------------------
(* Inputs: Musical Object Models and tempo headers *)

Note(id, start, dur) ==
    [id |-> id, midiNote |-> 60, startTime |-> start, duration |-> dur]

Rest(id, start, dur) ==
    [id |-> id, startTime |-> start, duration |-> dur]

Measure(elements) == [elements |-> elements]

MomEmpty == <<>>

MomRestOnly == << Measure(<< Rest(1, 0, 4) >>) >>

MomOne == << Measure(<< Note(1, 0, 2) >>) >>

\* Two voices written one after the other: the elements are not in time order.
MomVoices ==
    << Measure(<< Note(1, 2, 1), Rest(2, 3, 1), Note(3, 0, 1) >>),
       Measure(<< Note(4, 5, 1) >>) >>

MOMs == {MomEmpty, MomRestOnly, MomOne, MomVoices}

\* The Q: header as extractTempo reads it: 0 stands for an absent header,
\* n > 0 for a header whose first matching number is n.
QHeaders == {1200, 2400}

----------------------------------------------------------------------------
(* The parsers at rest, and an environment without faults *)

NoFaults == [reject |-> {}, highlight |-> {}]

NoMidi == [pc |-> "rest"]

NoAbc == [pc |-> "rest"]

NoXml == [pc |-> "rest"]

\* No MaestroPlayer was constructed: nothing listens to the manager's events.
\* `text' is the content of the input field, 0 for an empty one.
NoPlayer == [bound |-> FALSE, state |-> "IDLE", text |-> 0]

ParsersAtRest == midi = NoMidi /\ abc = NoAbc /\ xml = NoXml

----------------------------------------------------------------------------
(* The timer queue *)

NoTimer == 0

\* setTimeout(cb, delay): a negative delay counts as 0.  `earlier' is an
\* observer: a voice with the callback's note id was created after the
\* callback was set.
SetTimeout(w, delay, kind, s, note) ==
    [w EXCEPT
        !.timers = @ \cup {[id |-> w.nextTimer, due |-> clock + Max(0, delay),
                            kind |-> kind, obj |-> s, note |-> note,
                            session |-> w.obs[s].session,
                            earlier |-> FALSE]},
        !.nextTimer = @ + 1]

ClearTimeout(w, id) ==
    [w EXCEPT !.timers = {t \in @ : t.id # id}]

CurrentTime(w, s) == clock - w.ctx[s]

----------------------------------------------------------------------------
(* FMSynth *)

NewSynth == [activeVoices |-> <<>>]

Without(voices, noteId) == SelectSeq(voices, LAMBDA v : v # noteId)

SynthNoteOff(w, s, noteId) ==
    IF noteId \notin Range(w.synth[s].activeVoices)
    THEN w
    ELSE SetTimeout(w, release + releaseTail, "remove", s, noteId)

SynthNoteOn(w, s, noteId) ==
    LET voices == w.synth[s].activeVoices IN
    Only({IF noteId \in faults.reject
          THEN \* the audio graph throws before the voice is stored
               [w1 EXCEPT !.thrown = TRUE]
          ELSE [w1 EXCEPT
                  !.synth[s].activeVoices =
                      IF noteId \in Range(@) THEN @ ELSE Append(@, noteId),
                  !.timers = {IF t.obj = s /\ t.note = noteId
                                   /\ t.kind \in {"noteOff", "remove"}
                              THEN [t EXCEPT !.earlier = TRUE]
                              ELSE t : t \in @},
                  !.noteOns = @ + 1] :
          w1 \in {IF Len(voices) >= maxPolyphony
                  THEN SynthNoteOff(w, s, Head(voices))
                  ELSE w}})

SynthScheduleNote(w, s, noteId, startTime, duration) ==
    LET releaseTime == startTime + duration - releaseOverlap IN
    Only({IF w1.thrown THEN w1
          ELSE SetTimeout(w1, releaseTime - CurrentTime(w, s), "noteOff", s,
                          noteId) :
          w1 \in {SynthNoteOn(w, s, noteId)}})

SynthStopAll(w, s) ==
    [w EXCEPT !.synth[s].activeVoices = <<>>]

SynthRemove(w, s, noteId) ==
    [w EXCEPT !.synth[s].activeVoices = Without(@, noteId)]

----------------------------------------------------------------------------
(* Sequencer *)

SecondsPerBeat(tempo) == 2400 \div tempo

NewSequencer(tempo) ==
    [tempo |-> tempo, secondsPerBeat |-> SecondsPerBeat(tempo),
     scheduledEvents |-> <<>>, currentEventIndex |-> 0,
     startTime |-> 0, pauseTime |-> 0, isRunning |-> FALSE,
     timerID |-> NoTimer]

NewObserver ==
    [phase |-> "idle", session |-> 0, halted |-> FALSE, dispatched |-> <<>>,
     pauses |-> 0, pausedAt |-> 0, elapsedAtPause |-> 0, indexAtPause |-> 0,
     eventsAtPause |-> <<>>, undisturbed |-> FALSE, noteIds |-> 0,
     failed |-> <<>>, ends |-> 0, stopped |-> FALSE]

RECURSIVE Flatten(_)
Flatten(measures) ==
    IF measures = <<>> THEN <<>>
    ELSE Head(measures).elements \o Flatten(Tail(measures))

ToEvent(note) ==
    [noteId |-> note.id, startBeat |-> note.startTime,
     durationBeats |-> note.duration]

\* Array.prototype.sort with (a, b) => a.startBeat - b.startBeat: stable.
RECURSIVE InsertSorted(_, _)
InsertSorted(sorted, e) ==
    IF sorted = <<>> THEN <<e>>
    ELSE IF sorted[Len(sorted)].startBeat <= e.startBeat
         THEN Append(sorted, e)
         ELSE Append(InsertSorted(SubSeq(sorted, 1, Len(sorted) - 1), e),
                     sorted[Len(sorted)])

RECURSIVE SortByStartBeat(_)
SortByStartBeat(events) ==
    IF events = <<>> THEN <<>>
    ELSE InsertSorted(SortByStartBeat(SubSeq(events, 1, Len(events) - 1)),
                      events[Len(events)])

NotesOf(mom) ==
    LET elements == Flatten(mom)
        notes == SelectSeq(elements, LAMBDA e : "midiNote" \in DOMAIN e)
    IN  [i \in 1..Len(notes) |-> ToEvent(notes[i])]

\* loadNotes without its closing sort: the variant that C2 must tell apart.
LoadNotesUnsorted(mom) == NotesOf(mom)

LoadNotes(mom) == SortByStartBeat(NotesOf(mom))

EventTime(q, event) == q.startTime + event.startBeat * q.secondsPerBeat

\* The while loop of scheduler(): admits the events inside the window.
RECURSIVE Admit(_, _, _)
Admit(w, s, currentTime) ==
    LET q == w.seq[s] IN
    IF q.currentEventIndex >= Len(q.scheduledEvents) THEN w
    ELSE
      LET event == q.scheduledEvents[q.currentEventIndex + 1]
          eventTime == EventTime(q, event)
      IN
      IF eventTime > currentTime + scheduleAheadTime THEN w
      ELSE
        LET durationSeconds == event.durationBeats * q.secondsPerBeat
            delay == eventTime - currentTime
            failed == [index |-> q.currentEventIndex + 1, at |-> currentTime]
        IN
        Only({
          IF w1.thrown
          THEN \* scheduleNote threw: the exception leaves scheduler()
               [w1 EXCEPT !.obs[s].failed = Append(@, failed)]
          ELSE Only({
            IF delay <= 0 /\ event.noteId \in faults.highlight
            THEN \* onNoteStart threw, after the event was handed over
                 [w2 EXCEPT !.thrown = TRUE,
                            !.obs[s].failed = Append(@, failed)]
            ELSE Only({
              Admit([w3 EXCEPT !.seq[s].currentEventIndex = @ + 1], s,
                    currentTime) :
              w3 \in {IF delay > 0
                      THEN SetTimeout(
                              SetTimeout(w2, delay, "noteStart", s,
                                         event.noteId),
                              delay + durationSeconds, "noteEnd", s,
                              event.noteId)
                      ELSE SetTimeout(
                              [w2 EXCEPT
                                  !.emitted = @ \cup {<<"noteStart", s>>}],
                              durationSeconds, "noteEnd", s, event.noteId)}}) :
            w2 \in {[w1 EXCEPT !.obs[s].dispatched =
                        Append(@, [index |-> q.currentEventIndex + 1,
                                   at |-> eventTime])]}}) :
          w1 \in {SynthScheduleNote(w, s, event.noteId, eventTime,
                                    durationSeconds)}})

Scheduler(w, s) ==
    IF ~w.seq[s].isRunning THEN w
    ELSE
      LET currentTime == CurrentTime(w, s) IN
      Only({
        LET q == w1.seq[s]
            n == Len(q.scheduledEvents)
        IN
        IF w1.thrown THEN w1
        ELSE IF q.currentEventIndex >= n
        THEN IF n > 0
             THEN LET lastEvent == q.scheduledEvents[n]
                      endTime == q.startTime
                          + (lastEvent.startBeat + lastEvent.durationBeats)
                            * q.secondsPerBeat
                  IN  SetTimeout(w1, Max(0, endTime - currentTime), "end", s, 0)
             ELSE w1
        ELSE [SetTimeout(w1, lookahead, "loop", s, 0)
                 EXCEPT !.seq[s].timerID = w1.nextTimer] :
        w1 \in {Admit(w, s, currentTime)}})

SeqStart(w, s) ==
    IF w.seq[s].isRunning THEN w
    ELSE
      LET w1 == [w EXCEPT
                    !.seq[s].currentEventIndex = 0,
                    !.seq[s].startTime = CurrentTime(w, s),
                    !.seq[s].isRunning = TRUE,
                    !.obs[s].phase = "running",
                    !.obs[s].session = @ + 1,
                    !.obs[s].halted = FALSE,
                    !.obs[s].dispatched = <<>>,
                    !.obs[s].failed = <<>>,
                    !.obs[s].ends = 0,
                    !.obs[s].stopped = FALSE,
                    !.obs[s].pauses = 0,
                    !.obs[s].undisturbed = TRUE]
      IN  Scheduler(w1, s)

\* resume() without the shift of the origin: the variant that C9 must tell apart.
SeqResumeNoShift(w, s) ==
    IF w.seq[s].isRunning THEN w
    ELSE
      LET w1 == [w EXCEPT
                    !.seq[s].isRunning = TRUE,
                    !.obs[s].phase = "running",
                    !.obs[s].halted = FALSE,
                    !.obs[s].undisturbed = FALSE]
      IN  Scheduler(w1, s)

SeqResume(w, s) ==
    IF w.seq[s].isRunning THEN w
    ELSE
      LET pausedDuration == CurrentTime(w, s) - w.seq[s].pauseTime
          w1 == [w EXCEPT
                    !.seq[s].startTime = @ + pausedDuration,
                    !.seq[s].isRunning = TRUE,
                    !.obs[s].phase = "running",
                    !.obs[s].halted = FALSE,
                    !.obs[s].undisturbed = FALSE]
      IN  Scheduler(w1, s)

CancelLoop(w, s) ==
    IF w.seq[s].timerID # NoTimer
    THEN [ClearTimeout(w, w.seq[s].timerID) EXCEPT !.seq[s].timerID = NoTimer]
    ELSE w

SeqPause(w, s) ==
    IF ~w.seq[s].isRunning THEN w
    ELSE
      LET q == w.seq[s]
          w1 == [w EXCEPT
                    !.seq[s].isRunning = FALSE,
                    !.seq[s].pauseTime = CurrentTime(w, s),
                    !.obs[s].phase = "paused",
                    !.obs[s].halted = TRUE,
                    !.obs[s].undisturbed = FALSE,
                    !.obs[s].pauses = @ + 1,
                    !.obs[s].pausedAt = CurrentTime(w, s),
                    !.obs[s].elapsedAtPause = CurrentTime(w, s) - q.startTime,
                    !.obs[s].indexAtPause = q.currentEventIndex,
                    !.obs[s].eventsAtPause = q.scheduledEvents]
      IN  CancelLoop(w1, s)

SeqStop(w, s) ==
    LET w1 == [w EXCEPT
                  !.seq[s].isRunning = FALSE,
                  !.seq[s].currentEventIndex = 0,
                  !.obs[s].phase = "idle",
                  !.obs[s].halted = TRUE,
                  !.obs[s].undisturbed = FALSE,
                  !.obs[s].stopped = TRUE,
                  !.obs[s].dispatched = <<>>]
    IN  CancelLoop(w1, s)

\* The callback scheduler() leaves for the end of the last event.
SeqPlaybackEnd(w, s) ==
    [w EXCEPT
        !.seq[s].isRunning = FALSE,
        !.obs[s].phase = "idle",
        !.obs[s].undisturbed = FALSE,
        !.obs[s].dispatched = <<>>,
        !.obs[s].ends = @ + 1,
        !.player.state = IF w.player.bound THEN "READY" ELSE @,
        !.emitted = @ \cup {<<"playbackEnd", s>>}]

----------------------------------------------------------------------------
(* The state as one record, and the step that stores it back *)

World ==
    [ctx |-> ctx, seq |-> seq, synth |-> synth, timers |-> timers,
     nextTimer |-> nextTimer, mgr |-> mgr, player |-> player, obs |-> obs,
     noteOns |-> 0, emitted |-> {}, thrown |-> FALSE]

\* What `last' keeps of a step by operation op on Sequencer s: the state the
\* operation found (pre) and what it delivered.
NoStep ==
    [op |-> "none", obj |-> 0, stale |-> FALSE, prePhase |-> "idle",
     preHalted |-> FALSE, preRunning |-> FALSE, preIndex |-> 0, preStart |-> 0,
     preLen |-> 0, preVoices |-> 0, preOldest |-> 0,
     noteOns |-> 0, emitted |-> {}, thrown |-> FALSE]

Step(op, s, stale, w) ==
    IF s = 0
    THEN [NoStep EXCEPT !.op = op, !.noteOns = w.noteOns,
                        !.emitted = w.emitted, !.thrown = w.thrown]
    ELSE [op |-> op, obj |-> s, stale |-> stale,
          prePhase |-> obs[s].phase, preHalted |-> obs[s].halted,
          preRunning |-> seq[s].isRunning,
          preIndex |-> seq[s].currentEventIndex,
          preStart |-> seq[s].startTime,
          preLen |-> Len(obs[s].dispatched),
          preVoices |-> 0, preOldest |-> 0,
          noteOns |-> w.noteOns, emitted |-> w.emitted,
          thrown |-> w.thrown]

Commit(w) ==
    /\ UNCHANGED parsers
    /\ ctx' = w.ctx
    /\ seq' = w.seq
    /\ synth' = w.synth
    /\ timers' = w.timers
    /\ nextTimer' = w.nextTimer
    /\ mgr' = w.mgr
    /\ player' = w.player
    /\ obs' = w.obs

Calls == mgr.calls

Called(w) == [w EXCEPT !.mgr.calls = @ + 1]

----------------------------------------------------------------------------
(* Timer callbacks and the clock *)

Due == {t \in timers : t.due <= clock}

\* The next callback to run: the earliest due time, then the earliest handle.
NextDue ==
    CHOOSE t \in Due :
        \A u \in Due : t.due < u.due \/ (t.due = u.due /\ t.id <= u.id)

Callback(w, t) ==
    CASE t.kind = "loop"      -> Scheduler(w, t.obj)
      [] t.kind = "noteStart" ->
            [w EXCEPT !.emitted = @ \cup {<<"noteStart", t.obj>>},
                      !.thrown = t.note \in faults.highlight]
      [] t.kind = "noteEnd"   ->
            [w EXCEPT !.emitted = @ \cup {<<"noteEnd", t.obj>>},
                      !.thrown = t.note \in faults.highlight]
      [] t.kind = "end"       -> SeqPlaybackEnd(w, t.obj)
      [] t.kind = "noteOff"   -> SynthNoteOff(w, t.obj, t.note)
      [] t.kind = "remove"    -> SynthRemove(w, t.obj, t.note)

\* A callback left by a session that is no longer the current one: its
\* Sequencer was started again since, or was replaced by prime() and the
\* Sequencer that replaced it has been started.
Stale(t) ==
    \/ t.session # obs[t.obj].session
    \/ /\ mgr.sequencer \notin {0, t.obj}
       /\ obs[mgr.sequencer].session > 0

FireTimer ==
    /\ Due # {}
    /\ LET t == NextDue
           w == Callback([World EXCEPT !.timers = @ \ {t}], t)
       IN  /\ Commit(w)
           /\ last' = Step(t.kind, t.obj, Stale(t), w)
    /\ UNCHANGED clock

Tick ==
    /\ Due = {}
    /\ clock < MaxClock
    /\ clock' = clock + 1
    /\ last' = NoStep
    /\ UNCHANGED <<ctx, seq, synth, timers, nextTimer, mgr, player, obs>>
    /\ UNCHANGED parsers

----------------------------------------------------------------------------
(* Spec: one Sequencer, driven through its public methods *)

\* The manager before any prime(): its object fields are null (0 here).
\* `stopped' and `calls' are observers: stop() was the last of play() and
\* stop(), and the number of calls made so far.
NoManager ==
    [audioContext |-> 0, synth |-> 0, sequencer |-> 0,
     isPlaying |-> FALSE, isPaused |-> FALSE,
     stopped |-> FALSE, calls |-> 0]

Init ==
    /\ clock = 0
    /\ ctx = <<0>>
    /\ \E mom \in MOMs, q \in QHeaders :
          seq = << [NewSequencer(q) EXCEPT !.scheduledEvents = LoadNotes(mom)] >>
    /\ synth = << NewSynth >>
    /\ timers = {}
    /\ nextTimer = 1
    /\ mgr = NoManager
    /\ player = NoPlayer
    /\ obs = << NewObserver >>
    /\ last = NoStep
    /\ faults = NoFaults
    /\ ParsersAtRest

Start ==
    /\ Calls < MaxCalls
    /\ LET w == SeqStart(Called(World), 1)
       IN  Commit(w) /\ last' = Step("start", 1, FALSE, w)
    /\ UNCHANGED clock

Resume ==
    /\ Calls < MaxCalls
    /\ LET w == SeqResume(Called(World), 1)
       IN  Commit(w) /\ last' = Step("resume", 1, FALSE, w)
    /\ UNCHANGED clock

Pause ==
    /\ Calls < MaxCalls
    /\ LET w == SeqPause(Called(World), 1)
       IN  Commit(w) /\ last' = Step("pause", 1, FALSE, w)
    /\ UNCHANGED clock

Stop ==
    /\ Calls < MaxCalls
    /\ LET w == SeqStop(Called(World), 1)
       IN  Commit(w) /\ last' = Step("stop", 1, FALSE, w)
    /\ UNCHANGED clock

Next == Start \/ Resume \/ Pause \/ Stop \/ FireTimer \/ Tick

Spec == Init /\ [][Next]_vars

----------------------------------------------------------------------------
(* FaultSpec: one Sequencer whose sound engine rejects the dispatch of some  *)
(* notes, or whose onNoteStart callback throws for some notes                *)

\* The note ids for which FMSynth.noteOn throws, and those for which the
\* highlight callback throws.
Faults ==
    {[reject |-> r, highlight |-> h] :
        r \in {{}, {1}, {4}}, h \in {{}, {3}}} \ {NoFaults}

FaultInit ==
    /\ clock = 0
    /\ ctx = <<0>>
    /\ \E mom \in {MomOne, MomVoices} :
          seq = << [NewSequencer(2400) EXCEPT !.scheduledEvents = LoadNotes(mom)] >>
    /\ synth = << NewSynth >>
    /\ timers = {}
    /\ nextTimer = 1
    /\ mgr = NoManager
    /\ player = NoPlayer
    /\ obs = << NewObserver >>
    /\ last = NoStep
    /\ faults \in Faults
    /\ ParsersAtRest

FaultSpec == FaultInit /\ [][Next]_vars

----------------------------------------------------------------------------
(* AppSpec: the AudioSessionManager singleton, driven as main.ts drives it *)

MaxAppCalls == 6    \* calls made on the manager's API
MaxSessions == 2    \* prime() calls, each creating a context, synth, sequencer

ExtractTempo(qHeader) == IF qHeader = 0 THEN 120 ELSE qHeader

ParseResults == {[mom |-> m, Q |-> q] : m \in {MomEmpty, MomVoices}, q \in {2400}}

MgrStop(w) ==
    LET w1 == IF w.mgr.sequencer # 0 THEN SeqStop(w, w.mgr.sequencer) ELSE w
        w2 == IF w.mgr.synth # 0 THEN SynthStopAll(w1, w.mgr.synth) ELSE w1
    IN  [w2 EXCEPT !.mgr.isPlaying = FALSE, !.mgr.isPaused = FALSE,
                   !.mgr.stopped = TRUE]

\* prime() without its opening stop(): the variant that C12 must tell apart.
MgrPrimeNoStop(w, parseResult) ==
    LET n == Len(w.seq) + 1
        tempo == ExtractTempo(parseResult.Q)
        sequencer == [NewSequencer(tempo) EXCEPT
                         !.scheduledEvents = LoadNotes(parseResult.mom)]
    IN  [w EXCEPT
            !.ctx = Append(@, clock),
            !.synth = Append(@, NewSynth),
            !.seq = Append(@, sequencer),
            !.obs = Append(@, NewObserver),
            !.mgr.audioContext = n,
            !.mgr.synth = n,
            !.mgr.sequencer = n,
            !.mgr.isPlaying = FALSE,
            !.mgr.isPaused = FALSE]

MgrPrime(w, parseResult) ==
    LET w1 == MgrStop(w)
        n == Len(w1.seq) + 1
        tempo == ExtractTempo(parseResult.Q)
        sequencer == [NewSequencer(tempo) EXCEPT
                         !.scheduledEvents = LoadNotes(parseResult.mom)]
    IN  [w1 EXCEPT
            !.ctx = Append(@, clock),
            !.synth = Append(@, NewSynth),
            !.seq = Append(@, sequencer),
            !.obs = Append(@, NewObserver),
            !.mgr.audioContext = n,
            !.mgr.synth = n,
            !.mgr.sequencer = n,
            !.mgr.isPlaying = FALSE,
            !.mgr.isPaused = FALSE]

MgrPlay(w) ==
    IF w.mgr.audioContext = 0 \/ w.mgr.sequencer = 0 THEN w
    ELSE
      Only({IF w1.thrown THEN [w1 EXCEPT !.mgr.stopped = FALSE]
            ELSE [w1 EXCEPT !.mgr.isPlaying = TRUE, !.mgr.isPaused = FALSE,
                            !.mgr.stopped = FALSE] :
            w1 \in {IF w.mgr.isPaused
                    THEN SeqResume(w, w.mgr.sequencer)
                    ELSE SeqStart(w, w.mgr.sequencer)}})

MgrPause(w) ==
    IF w.mgr.sequencer = 0 THEN w
    ELSE [SeqPause(w, w.mgr.sequencer)
             EXCEPT !.mgr.isPlaying = FALSE, !.mgr.isPaused = TRUE]

AppInit ==
    /\ clock = 0
    /\ ctx = <<>>
    /\ seq = <<>>
    /\ synth = <<>>
    /\ timers = {}
    /\ nextTimer = 1
    /\ mgr = NoManager
    /\ player = NoPlayer
    /\ obs = <<>>
    /\ last = NoStep
    /\ faults = NoFaults
    /\ ParsersAtRest

ManagerPrime ==
    /\ Calls < MaxAppCalls
    /\ Len(seq) < MaxSessions
    /\ \E parseResult \in ParseResults :
          LET w == MgrPrime(Called(World), parseResult)
          IN  Commit(w) /\ last' = Step("mgrPrime", mgr.sequencer, FALSE, w)
    /\ UNCHANGED clock

ManagerPlay ==
    /\ Calls < MaxAppCalls
    /\ LET w == MgrPlay(Called(World))
       IN  Commit(w) /\ last' = Step("mgrPlay", mgr.sequencer, FALSE, w)
    /\ UNCHANGED clock

ManagerPause ==
    /\ Calls < MaxAppCalls
    /\ LET w == MgrPause(Called(World))
       IN  Commit(w) /\ last' = Step("mgrPause", mgr.sequencer, FALSE, w)
    /\ UNCHANGED clock

ManagerStop ==
    /\ Calls < MaxAppCalls
    /\ LET w == MgrStop(Called(World))
       IN  Commit(w) /\ last' = Step("mgrStop", mgr.sequencer, FALSE, w)
    /\ UNCHANGED clock

AppNext ==
    ManagerPrime \/ ManagerPlay \/ ManagerPause \/ ManagerStop
        \/ FireTimer \/ Tick

AppSpec == AppInit /\ [][AppNext]_vars

----------------------------------------------------------------------------
(* MaestroPlayer: the handlers of main.ts *)

\* What the input field can hold besides nothing: text k parses to
\* InputTexts[k].  ABCPlusParser.parse never fills `errors', so every text
\* has a parse result; a text without notes gives an empty MOM.
InputTexts ==
    << [mom |-> MomOne, Q |-> 2400], [mom |-> MomEmpty, Q |-> 2400],
       [mom |-> MomVoices, Q |-> 2400] >>

\* The text loadExample puts into the input field.
ExampleText == 3

\* play() from READY or PAUSED.
PlayerStart(w) ==
    IF w.player.state \notin {"READY", "PAUSED"} THEN w
    ELSE MgrPlay([w EXCEPT !.player.state = "PLAYING"])

\* parseAndPlay(): prime() has no await inside, so the continuation after
\* `await prime' runs before any other event; an exception ends in IDLE.
PlayerParseAndPlay(w) ==
    IF w.player.text = 0 THEN w
    ELSE Only({IF w1.thrown THEN [w1 EXCEPT !.player.state = "IDLE"] ELSE w1 :
               w1 \in {PlayerStart(
                          [MgrPrime(w, InputTexts[w.player.text])
                              EXCEPT !.player.state = "READY"])}})

PlayerPlay(w) ==
    IF w.player.state = "IDLE" /\ w.player.text # 0
    THEN PlayerParseAndPlay(w)
    ELSE PlayerStart(w)

PlayerPause(w) ==
    IF w.player.state # "PLAYING" THEN w
    ELSE MgrPause([w EXCEPT !.player.state = "PAUSED"])

PlayerStop(w) ==
    [MgrStop(w) EXCEPT
        !.player.state = IF w.player.text # 0 THEN "READY" ELSE "IDLE"]

PlayerTogglePlayPause(w) ==
    IF w.player.state = "PLAYING" THEN PlayerPause(w)
    ELSE IF w.player.state \in {"PAUSED", "READY"} THEN PlayerPlay(w)
    ELSE IF w.player.state = "IDLE" /\ w.player.text # 0
    THEN PlayerParseAndPlay(w)
    ELSE w

PlayerOnInputChange(w) ==
    IF w.player.state # "IDLE"
    THEN [PlayerStop(w) EXCEPT !.player.state = "IDLE"]
    ELSE w

PlayerLoadExample(w) ==
    PlayerOnInputChange([w EXCEPT !.player.text = ExampleText])

PlayerClearEditor(w) ==
    [PlayerStop(w) EXCEPT !.player.text = 0, !.player.state = "IDLE"]

----------------------------------------------------------------------------
(* MaestroSpec: the MaestroPlayer, driven through its controls *)

MaxUiActions == 5   \* clicks and edits made on the page

MaestroInit ==
    /\ clock = 0
    /\ ctx = <<>>
    /\ seq = <<>>
    /\ synth = <<>>
    /\ timers = {}
    /\ nextTimer = 1
    /\ mgr = NoManager
    /\ player = [bound |-> TRUE, state |-> "IDLE", text |-> 0]
    /\ obs = <<>>
    /\ last = NoStep
    /\ faults = NoFaults
    /\ ParsersAtRest

ClickPlayPause ==
    /\ Calls < MaxUiActions
    /\ (player.state = "IDLE" /\ player.text # 0) => Len(seq) < MaxSessions
    /\ LET w == PlayerTogglePlayPause(Called(World))
       IN  Commit(w) /\ last' = Step("togglePlayPause", mgr.sequencer, FALSE, w)
    /\ UNCHANGED clock

ClickStop ==
    /\ Calls < MaxUiActions
    /\ LET w == PlayerStop(Called(World))
       IN  Commit(w) /\ last' = Step("stop", mgr.sequencer, FALSE, w)
    /\ UNCHANGED clock

ClickLoadExample ==
    /\ Calls < MaxUiActions
    /\ LET w == PlayerLoadExample(Called(World))
       IN  Commit(w) /\ last' = Step("loadExample", mgr.sequencer, FALSE, w)
    /\ UNCHANGED clock

ClickClear ==
    /\ Calls < MaxUiActions
    /\ LET w == PlayerClearEditor(Called(World))
       IN  Commit(w) /\ last' = Step("clearEditor", mgr.sequencer, FALSE, w)
    /\ UNCHANGED clock

\* An edit of the input field: the text changes, then the input event runs.
EditInput ==
    /\ Calls < MaxUiActions
    /\ \E text \in (0..Len(InputTexts)) \ {player.text} :
          LET w == PlayerOnInputChange(
                       [Called(World) EXCEPT !.player.text = text])
          IN  Commit(w) /\ last' = Step("onInputChange", mgr.sequencer, FALSE, w)
    /\ UNCHANGED clock

MaestroNext ==
    ClickPlayPause \/ ClickStop \/ ClickLoadExample \/ ClickClear
        \/ EditInput \/ FireTimer \/ Tick

MaestroSpec == MaestroInit /\ [][MaestroNext]_vars

\* C30: after any sequence of UI actions and playback-end events, whenever
\* the MaestroPlayer state is PLAYING the manager holds a primed, running
\* sequencer, and whenever the manager's getState().isPlaying is true the
\* sequencer is running.
C30_PlayingMeansRunning ==
    /\ player.state = "PLAYING"
          => mgr.sequencer # 0 /\ seq[mgr.sequencer].isRunning
    /\ mgr.isPlaying => mgr.sequencer # 0 /\ seq[mgr.sequencer].isRunning

----------------------------------------------------------------------------
(* SynthSpec: one FMSynth, driven through its public methods *)

MaxNoteIds == 17     \* distinct note ids handed to the synth
MaxSynthCalls == 3   \* calls other than a noteOn with a new note id

\* Note ids come into use in the order 1, 2, ...; the calls that name a note
\* already in use name one of these.
ReusedIds == {1}

UsedIds == ReusedIds \cap 1..obs[1].noteIds

ScheduleOffsets == {0, 2}

ScheduleDurations == {4}

\* What `last' keeps of a call on FMSynth s.
SynthStep(op, s, w) ==
    [Step(op, s, FALSE, w) EXCEPT
        !.preVoices = Len(synth[s].activeVoices),
        !.preOldest = IF synth[s].activeVoices = <<>> THEN 0
                      ELSE Head(synth[s].activeVoices)]

SynthInit ==
    /\ clock = 0
    /\ ctx = <<0>>
    /\ seq = << NewSequencer(120) >>
    /\ synth = << NewSynth >>
    /\ timers = {}
    /\ nextTimer = 1
    /\ mgr = NoManager
    /\ player = NoPlayer
    /\ obs = << NewObserver >>
    /\ last = NoStep
    /\ faults = NoFaults
    /\ ParsersAtRest

NoteOnNew ==
    /\ obs[1].noteIds < MaxNoteIds
    /\ LET id == obs[1].noteIds + 1
           w == SynthNoteOn([World EXCEPT !.obs[1].noteIds = id], 1, id)
       IN  Commit(w) /\ last' = SynthStep("noteOn", 1, w)
    /\ UNCHANGED clock

NoteOnAgain ==
    /\ Calls < MaxSynthCalls
    /\ \E id \in UsedIds :
          LET w == SynthNoteOn(Called(World), 1, id)
          IN  Commit(w) /\ last' = SynthStep("noteOn", 1, w)
    /\ UNCHANGED clock

NoteOff ==
    /\ Calls < MaxSynthCalls
    /\ \E id \in ReusedIds :
          LET w == SynthNoteOff(Called(World), 1, id)
          IN  Commit(w) /\ last' = SynthStep("noteOff", 1, w)
    /\ UNCHANGED clock

ScheduleNote ==
    /\ Calls < MaxSynthCalls
    /\ \E id \in UsedIds, offset \in ScheduleOffsets, duration \in ScheduleDurations :
          LET w == SynthScheduleNote(Called(World), 1, id,
                                     CurrentTime(World, 1) + offset, duration)
          IN  Commit(w) /\ last' = SynthStep("scheduleNote", 1, w)
    /\ UNCHANGED clock

StopAll ==
    /\ Calls < MaxSynthCalls
    /\ LET w == SynthStopAll(Called(World), 1)
       IN  Commit(w) /\ last' = SynthStep("stopAll", 1, w)
    /\ UNCHANGED clock

\* Time passes until the next pending callback is due.
Leap ==
    /\ Due = {}
    /\ timers # {}
    /\ \E t \in timers :
          /\ \A u \in timers : t.due <= u.due
          /\ clock' = t.due
    /\ last' = NoStep
    /\ UNCHANGED <<ctx, seq, synth, timers, nextTimer, mgr, player, obs>>
    /\ UNCHANGED parsers

SynthNext ==
    NoteOnNew \/ NoteOnAgain \/ NoteOff \/ ScheduleNote \/ StopAll
        \/ FireTimer \/ Leap

SynthSpec == SynthInit /\ [][SynthNext]_vars

----------------------------------------------------------------------------
(* Claims about the Sequencer, checked under Spec *)

Objects == DOMAIN seq

Events(s) == seq[s].scheduledEvents

LoopPending(s) == \E t \in timers : t.obj = s /\ t.kind = "loop"

EndPending(s) == \E t \in timers : t.obj = s /\ t.kind = "end"

SequencerCallbacks == {"loop", "noteStart", "noteEnd", "end"}

\* C1: the playback state changes only along idle -> running (start),
\* running -> paused (pause), paused -> running (resume), running -> idle
\* (stop or natural completion) and any -> idle (stop); a paused session is
\* moved to idle by stop() alone.
C1_OnlyLegalTransitions ==
    last.obj # 0 =>
        LET pre == last.prePhase
            post == obs[last.obj].phase
        IN  \/ pre = post
            \/ pre = "idle" /\ post = "running" /\ last.op = "start"
            \/ pre = "running" /\ post = "paused" /\ last.op = "pause"
            \/ pre = "paused" /\ post = "running" /\ last.op = "resume"
            \/ pre = "running" /\ post = "idle" /\ last.op \in {"stop", "end"}
            \/ post = "idle" /\ last.op = "stop"

\* C2: within one session every flattened event is handed to the sound
\* engine at most once, and in non-decreasing startBeat order.
C2_DispatchedOnceInOrder ==
    \A s \in Objects :
        LET d == obs[s].dispatched IN
        \A i, j \in 1..Len(d) :
            i < j =>
                /\ d[i].index # d[j].index
                /\ Events(s)[d[i].index].startBeat
                      <= Events(s)[d[j].index].startBeat

\* C2's case: a session that was paused and resumed has handed over events
\* whose order in the MOM was not their time order.
C2_Witness ==
    \E s \in Objects :
        /\ obs[s].phase = "running"
        /\ obs[s].pauses >= 1
        /\ Len(obs[s].dispatched) >= 3
        /\ Events(s)[1].noteId > Events(s)[2].noteId

\* C3: after stop() or pause() no callback of the Sequencer that was still
\* pending is delivered, until the next start() or resume().
C3_NoCallbackWhileHalted ==
    ~(last.op \in SequencerCallbacks /\ last.preHalted)

\* C6: a session that was started and neither paused nor stopped ends by
\* itself: while it runs, the loop re-arm or the end-of-playback callback is
\* pending.
C6_StartedSessionCompletes ==
    \A s \in Objects :
        (seq[s].isRunning /\ obs[s].phase = "running" /\ obs[s].undisturbed)
            => (LoopPending(s) \/ EndPending(s))

\* C7: start() while paused, resume() while idle and pause() while idle or
\* paused leave the state, the admission cursor and the origin unchanged.
C7_IllegalCallsChangeNothing ==
    (\/ last.op = "start" /\ last.prePhase = "paused"
     \/ last.op = "resume" /\ last.prePhase = "idle"
     \/ last.op = "pause" /\ last.prePhase \in {"idle", "paused"})
        => /\ obs[last.obj].phase = last.prePhase
           /\ seq[last.obj].isRunning = last.preRunning
           /\ seq[last.obj].currentEventIndex = last.preIndex
           /\ seq[last.obj].startTime = last.preStart

\* C9: pause() leaves the cursor and the event list as they were, and right
\* after the resume() that follows, now - origin is what it was at the pause
\* and the events admitted by it continue from the preserved cursor.
C9_PauseResumeContinuous ==
    /\ (last.op = "pause" /\ last.prePhase = "running") =>
          LET s == last.obj IN
          /\ seq[s].currentEventIndex = last.preIndex
          /\ seq[s].scheduledEvents = obs[s].eventsAtPause
    /\ (last.op = "resume" /\ last.prePhase = "paused") =>
          LET s == last.obj
              d == obs[s].dispatched
          IN  /\ CurrentTime(World, s) - seq[s].startTime = obs[s].elapsedAtPause
              /\ last.preIndex = obs[s].indexAtPause
              /\ seq[s].scheduledEvents = obs[s].eventsAtPause
              /\ seq[s].currentEventIndex - last.preIndex = Len(d) - last.preLen
              /\ \A i \in 1..(Len(d) - last.preLen) :
                    d[last.preLen + i].index = obs[s].indexAtPause + i

\* C9's case: a resume() after a pause of positive length, some way into the
\* list, that admits further events.
C9_Witness ==
    /\ last.op = "resume" /\ last.prePhase = "paused"
    /\ LET s == last.obj IN
       /\ CurrentTime(World, s) > obs[s].pausedAt
       /\ obs[s].elapsedAtPause > 0
       /\ obs[s].indexAtPause > 0
       /\ seq[s].currentEventIndex > obs[s].indexAtPause

\* C10: in a session paused once, every event that had not sounded at the
\* pause is dispatched at origin + startBeat * secondsPerBeat + d, and none
\* is highlighted inside the paused interval.
C10_RemainingEventsShifted ==
    /\ \A s \in Objects :
          (obs[s].pauses = 1 /\ obs[s].phase = "running") =>
              \A i \in 1..Len(obs[s].dispatched) :
                  LET e == obs[s].dispatched[i] IN
                  e.at > obs[s].pausedAt =>
                      e.at = EventTime(seq[s], Events(s)[e.index])
    /\ ~(last.op = "noteStart" /\ last.prePhase = "paused" /\ ~last.stale)

----------------------------------------------------------------------------
(* Claims about failing dispatches, checked under FaultSpec *)

SchedulerRuns == {"start", "resume", "loop"}

\* C11: when the sound engine throws on the dispatch of an event, or the
\* highlight callback throws, the admission cursor still moves past that
\* event and the loop is still re-armed (or the end of playback is still
\* awaited), and the event is not tried again.
C11_FailedDispatchIsSkipped ==
    /\ (last.op \in SchedulerRuns /\ last.thrown) =>
          LET s == last.obj
              f == obs[s].failed[Len(obs[s].failed)]
          IN  /\ seq[s].currentEventIndex >= f.index
              /\ LoopPending(s) \/ EndPending(s)
    /\ \A s \in Objects :
          \A i, j \in 1..Len(obs[s].failed) :
              i < j => obs[s].failed[i].index # obs[s].failed[j].index

----------------------------------------------------------------------------
(* Claims about the AudioSessionManager, checked under AppSpec *)

\* C4: a callback left by an earlier session that fires after a new session
\* has started does nothing to the new session: it does not make it
\* not-running and emits no noteStart, noteEnd or playbackEnd.
C4_StaleCallbackIsNoOp ==
    (last.op \in SequencerCallbacks /\ last.stale) =>
        /\ last.emitted = {}
        /\ seq[last.obj].isRunning = last.preRunning

\* C8: right after AudioSessionManager.stop() the sequencer is not running,
\* its cursor is 0, no loop re-arm is pending, the synth holds no voice and
\* isPlaying = isPaused = false; until the next play() no noteOn is issued.
C8_StopResetsEverything ==
    /\ last.op = "mgrStop" =>
          /\ ~mgr.isPlaying /\ ~mgr.isPaused
          /\ mgr.sequencer # 0 =>
                /\ ~seq[mgr.sequencer].isRunning
                /\ seq[mgr.sequencer].currentEventIndex = 0
                /\ ~LoopPending(mgr.sequencer)
          /\ mgr.synth # 0 => synth[mgr.synth].activeVoices = <<>>
    /\ mgr.stopped => last.noteOns = 0

Running == {s \in Objects : seq[s].isRunning}

\* C28: onPlaybackEnd is delivered at most once per start(), under any
\* interleaving of pause(), resume() and loop ticks (no stop() since the
\* start()).
C28_PlaybackEndOnce ==
    \A s \in DOMAIN obs : ~obs[s].stopped => obs[s].ends <= 1

----------------------------------------------------------------------------
(* Claims about FMSynth, checked under SynthSpec *)

\* C29: a release or removal timer created for an earlier voice never
\* releases or removes a later voice that reuses the same note id: when such
\* a timer fires, no voice with its note id is active.
C29_EarlierTimersSpareLaterVoices ==
    [][\A t \in timers \ timers' :
          (t.kind \in {"noteOff", "remove"} /\ t.earlier)
              => t.note \notin Range(synth[t.obj].activeVoices)]_vars

\* C5: the active-voice set never holds more than maxPolyphony voices; a
\* noteOn arriving at the ceiling evicts the earliest-started voice before
\* the new voice is counted.
C5_VoiceCeiling ==
    /\ \A s \in DOMAIN synth : Len(synth[s].activeVoices) <= maxPolyphony
    /\ (last.op \in {"noteOn", "scheduleNote"} /\ last.preVoices >= maxPolyphony)
          => last.preOldest \notin Range(synth[last.obj].activeVoices)

----------------------------------------------------------------------------
(* MIDIParser: reading the bytes *)

\* A byte sequence is a sequence of numbers in 0..255; `position' counts
\* from 0 as in the code.  A reader r is the parser's position, the value of
\* the last read and whether a DataView access has thrown a RangeError.
Reader(position) == [position |-> position, value |-> 0, thrown |-> FALSE]

InRange(data, position, n) == position >= 0 /\ position + n <= Len(data)

ReadUint8(data, r) ==
    IF r.thrown THEN r
    ELSE IF ~InRange(data, r.position, 1) THEN [r EXCEPT !.thrown = TRUE]
    ELSE [r EXCEPT !.value = data[r.position + 1], !.position = @ + 1]

ReadUint16(data, r) ==
    IF r.thrown THEN r
    ELSE IF ~InRange(data, r.position, 2) THEN [r EXCEPT !.thrown = TRUE]
    ELSE [r EXCEPT !.value = data[r.position + 1] * 256 + data[r.position + 2],
                   !.position = @ + 2]

ReadUint32(data, r) ==
    IF r.thrown THEN r
    ELSE IF ~InRange(data, r.position, 4) THEN [r EXCEPT !.thrown = TRUE]
    ELSE [r EXCEPT !.value = ((data[r.position + 1] * 256
                                 + data[r.position + 2]) * 256
                                 + data[r.position + 3]) * 256
                                 + data[r.position + 4],
                   !.position = @ + 4]

\* readString(length): the bytes themselves stand for the characters.
ReadString(data, r, length) ==
    IF r.thrown THEN r
    ELSE IF ~InRange(data, r.position, length) THEN [r EXCEPT !.thrown = TRUE]
    ELSE [r EXCEPT !.value = SubSeq(data, r.position + 1, r.position + length),
                   !.position = @ + length]

\* readVariableLength: 7 bits per byte, the top bit says another byte follows.
\* (The quantities read here have at most two bytes, so the 32-bit shift of
\* the code does not wrap.)
RECURSIVE VariableLength(_, _, _)
VariableLength(data, r, value) ==
    LET r1 == ReadUint8(data, r) IN
    IF r1.thrown THEN r1
    ELSE LET v == value * 128 + (r1.value % 128) IN
         IF r1.value >= 128 THEN VariableLength(data, r1, v)
         ELSE [r1 EXCEPT !.value = v]

ReadVariableLength(data, r) == VariableLength(data, r, 0)

MThd == <<77, 84, 104, 100>>

MTrk == <<77, 84, 114, 107>>

\* parseHeader: null for a wrong signature or a header length other than 6.
ParseHeader(data) ==
    LET chunk == ReadString(data, Reader(0), 4)
        length == ReadUint32(data, chunk)
        format == ReadUint16(data, length)
        numTracks == ReadUint16(data, format)
        division == ReadUint16(data, numTracks)
        none == [null |-> TRUE, thrown |-> FALSE, numTracks |-> 0,
                 ticksPerBeat |-> 0, position |-> 0]
    IN  IF chunk.thrown THEN [none EXCEPT !.thrown = TRUE]
        ELSE IF chunk.value # MThd THEN [none EXCEPT !.position = chunk.position]
        ELSE IF length.thrown THEN [none EXCEPT !.thrown = TRUE]
        ELSE IF length.value # 6 THEN [none EXCEPT !.position = length.position]
        ELSE IF division.thrown THEN [none EXCEPT !.thrown = TRUE]
        ELSE [null |-> FALSE, thrown |-> FALSE, numTracks |-> numTracks.value,
              ticksPerBeat |-> division.value % 32768,
              position |-> division.position]

\* The value of a field an event object does not have.
Undefined == -1

\* The variant without `this.position--', which C15 must tell apart.
RewindNot(r) == r

\* The status byte was left out: the byte just read belongs to the data.
Rewind(r) == [r EXCEPT !.position = @ - 1]

\* One iteration of the while loop of parseTrack.  A loop state st keeps the
\* events, the reader, absoluteTime and runningStatus.
TrackStep(data, st) ==
    LET deltaTime == ReadVariableLength(data, st.reader)
        time == st.absoluteTime + deltaTime.value
        byte == ReadUint8(data, deltaTime)
        running == byte.value < 128
        r1 == IF byte.thrown THEN byte
              ELSE IF running THEN Rewind(byte) ELSE byte
        status == IF running THEN st.runningStatus ELSE byte.value
        type == status - (status % 16)
        channel == status % 16
        d1 == ReadUint8(data, r1)
        d2 == ReadUint8(data, d1)
        next == [st EXCEPT !.absoluteTime = time, !.runningStatus = status]
    IN
    IF byte.thrown THEN [st EXCEPT !.reader = byte]
    ELSE IF type = 144
    THEN LET event == [type |-> IF d2.value > 0 THEN "noteOn" ELSE "noteOff",
                       channel |-> channel, note |-> d1.value,
                       velocity |-> d2.value, tempo |-> Undefined,
                       time |-> time]
         IN  IF d2.thrown THEN [st EXCEPT !.reader = d2]
             ELSE [next EXCEPT !.reader = d2, !.events = Append(@, event)]
    ELSE IF type = 128
    THEN LET event == [type |-> "noteOff", channel |-> channel,
                       note |-> d1.value, velocity |-> Undefined,
                       tempo |-> Undefined, time |-> time]
         IN  IF d2.thrown THEN [st EXCEPT !.reader = d2]
             ELSE [next EXCEPT !.reader = d2, !.events = Append(@, event)]
    ELSE IF type \in {160, 176, 224}
    THEN [next EXCEPT !.reader = d2]
    ELSE IF type \in {192, 208}
    THEN [next EXCEPT !.reader = d1]
    ELSE IF status = 255
    THEN LET metaType == d1
             metaLength == ReadVariableLength(data, metaType)
             t1 == ReadUint8(data, metaLength)
             t2 == ReadUint8(data, t1)
             t3 == ReadUint8(data, t2)
             event == [type |-> "tempo", channel |-> 0, note |-> Undefined,
                       velocity |-> Undefined,
                       tempo |-> (t1.value * 256 + t2.value) * 256 + t3.value,
                       time |-> time]
         IN  IF metaLength.thrown THEN [st EXCEPT !.reader = metaLength]
             ELSE IF metaType.value = 81 /\ metaLength.value = 3
             THEN IF t3.thrown THEN [st EXCEPT !.reader = t3]
                  ELSE [next EXCEPT !.reader = t3, !.events = Append(@, event)]
             ELSE [next EXCEPT !.reader =
                      [metaLength EXCEPT !.position = @ + metaLength.value]]
    ELSE IF status \in {240, 247}
    THEN LET sysexLength == ReadVariableLength(data, r1)
         IN  [next EXCEPT !.reader =
                 [sysexLength EXCEPT !.position = @ + sysexLength.value]]
    ELSE [next EXCEPT !.reader = r1]

\* The while loop of parseTrack.
RECURSIVE TrackLoop(_, _, _)
TrackLoop(data, endPosition, st) ==
    IF st.reader.thrown \/ ~(st.reader.position < endPosition) THEN st
    ELSE Only({TrackLoop(data, endPosition, next) :
                  next \in {TrackStep(data, st)}})

\* parseTrack, reading from `position': null for a chunk that is not MTrk.
ParseTrack(data, position) ==
    LET chunk == ReadString(data, Reader(position), 4)
        length == ReadUint32(data, chunk)
        loop == TrackLoop(data, length.position + length.value,
                          [events |-> <<>>, reader |-> length,
                           absoluteTime |-> 0, runningStatus |-> 0])
        none == [null |-> TRUE, thrown |-> FALSE, events |-> <<>>,
                 position |-> chunk.position]
    IN  IF chunk.thrown THEN [none EXCEPT !.thrown = TRUE]
        ELSE IF chunk.value # MTrk THEN none
        ELSE IF length.thrown THEN [none EXCEPT !.thrown = TRUE]
        ELSE Only({[null |-> FALSE, thrown |-> done.reader.thrown,
                    events |-> done.events, position |-> done.reader.position] :
                      done \in {loop}})

\* The tempo events parse() collects from a track.
TempoEventsOf(events) ==
    LET tempos == SelectSeq(events,
                     LAMBDA e : e.type = "tempo" /\ e.tempo # 0)
    IN  [i \in 1..Len(tempos) |-> [time |-> tempos[i].time,
                                   tempo |-> tempos[i].tempo]]

----------------------------------------------------------------------------
(* MIDIParser: ticks to seconds, and the pairing of note events *)

\* Seconds are IEEE doubles in the code.  For one file ticksPerBeat is fixed,
\* so a finite number of seconds is kept as the integer n that stands for
\* n / (ticksPerBeat * 1000000) s (no rounding); a division by
\* ticksPerBeat = 0 gives NaN or an infinity, as it does in the code.
Num(n) == [k |-> "num", n |-> n]

NaN == [k |-> "nan", n |-> 0]

Infinity(sign) == [k |-> IF sign > 0 THEN "inf" ELSE "ninf", n |-> 0]

Neg(a) ==
    CASE a.k = "num"  -> Num(0 - a.n)
      [] a.k = "nan"  -> NaN
      [] a.k = "inf"  -> Infinity(-1)
      [] a.k = "ninf" -> Infinity(1)

Plus(a, b) ==
    IF a.k = "nan" \/ b.k = "nan" THEN NaN
    ELSE IF a.k = "num" /\ b.k = "num" THEN Num(a.n + b.n)
    ELSE IF a.k = "num" THEN b
    ELSE IF b.k = "num" THEN a
    ELSE IF a.k = b.k THEN a
    ELSE NaN

Minus(a, b) == Plus(a, Neg(b))

\* a > 0, a >= 0 and a <= b on doubles: false when NaN is involved.
Positive(a) == a.k = "inf" \/ (a.k = "num" /\ a.n > 0)

NonNegative(a) == a.k = "inf" \/ (a.k = "num" /\ a.n >= 0)

Leq(a, b) == a.k # "nan" /\ b.k # "nan" /\ ~Positive(Minus(a, b))

\* ((ticks) / ticksPerBeat) * (tempo / 1000000), for a tempo > 0.
Span(ticks, ticksPerBeat, tempo) ==
    IF ticksPerBeat # 0 THEN Num(ticks * tempo)
    ELSE IF ticks = 0 THEN NaN
    ELSE Infinity(ticks)

\* tempoEvents.sort((a, b) => a.time - b.time): stable.
RECURSIVE InsertByTime(_, _)
InsertByTime(sorted, e) ==
    IF sorted = <<>> THEN <<e>>
    ELSE IF sorted[Len(sorted)].time <= e.time
         THEN Append(sorted, e)
         ELSE Append(InsertByTime(SubSeq(sorted, 1, Len(sorted) - 1), e),
                     sorted[Len(sorted)])

RECURSIVE SortByTime(_)
SortByTime(events) ==
    IF events = <<>> THEN <<>>
    ELSE InsertByTime(SortByTime(SubSeq(events, 1, Len(events) - 1)),
                      events[Len(events)])

\* The for loop of ticksToSeconds, from tempo event i on.
RECURSIVE TempoLoop(_, _, _, _, _, _, _)
TempoLoop(tempoEvents, ticksPerBeat, ticks, i, seconds, currentTempo, lastTempoTick) ==
    IF i > Len(tempoEvents) \/ tempoEvents[i].time >= ticks
    THEN Plus(seconds, Span(ticks - lastTempoTick, ticksPerBeat, currentTempo))
    ELSE TempoLoop(tempoEvents, ticksPerBeat, ticks, i + 1,
                   Plus(seconds, Span(tempoEvents[i].time - lastTempoTick,
                                      ticksPerBeat, currentTempo)),
                   tempoEvents[i].tempo, tempoEvents[i].time)

DefaultTempo == 500000

TicksToSeconds(tempoEvents, ticksPerBeat, ticks) ==
    TempoLoop(tempoEvents, ticksPerBeat, ticks, 1, Num(0),
              IF tempoEvents = <<>> THEN DefaultTempo ELSE tempoEvents[1].tempo,
              0)

\* velocity / 127 as the pair <<velocity, 127>>; 0.8 as <<4, 5>>.
DefaultVelocity == <<4, 5>>

\* The variant of PairStep that keeps a key open after its closing event,
\* which C16 must tell apart.
PairStepKeepOpen(events, i, st, track, tempoEvents, ticksPerBeat) ==
    LET event == events[i]
        held == {o \in st.open : o[1] = event.channel /\ o[2] = event.note}
    IN
    IF event.type = "noteOn" /\ event.note # Undefined
    THEN [st EXCEPT !.open = (@ \ held) \cup {<<event.channel, event.note, i>>}]
    ELSE IF event.type = "noteOff" /\ event.note # Undefined /\ held # {}
    THEN LET on == (CHOOSE o \in held : TRUE)[3]
             noteOn == events[on]
             startTime == TicksToSeconds(tempoEvents, ticksPerBeat, noteOn.time)
             note == [noteId |-> Len(st.notes),
                      midiNote |-> event.note,
                      velocity |-> <<noteOn.velocity, 127>>,
                      startTime |-> startTime,
                      duration |-> Minus(TicksToSeconds(tempoEvents,
                                             ticksPerBeat, event.time),
                                         startTime),
                      channel |-> event.channel,
                      track |-> track, on |-> on, off |-> i]
         IN  [open |-> st.open, notes |-> Append(st.notes, note)]
    ELSE st

\* One iteration of the inner loop of eventsToNotes, on event i of a track.
\* `open' is activeNotes: a set of <<channel, note, index of the noteOn
\* event>>.  The fields track, on and off of a resolved note are observers:
\* where its two events are.
PairStep(events, i, st, track, tempoEvents, ticksPerBeat) ==
    LET event == events[i]
        held == {o \in st.open : o[1] = event.channel /\ o[2] = event.note}
    IN
    IF event.type = "noteOn" /\ event.note # Undefined
    THEN [st EXCEPT !.open = (@ \ held) \cup {<<event.channel, event.note, i>>}]
    ELSE IF event.type = "noteOff" /\ event.note # Undefined /\ held # {}
    THEN LET on == (CHOOSE o \in held : TRUE)[3]
             noteOn == events[on]
             startTime == TicksToSeconds(tempoEvents, ticksPerBeat, noteOn.time)
             note == [noteId |-> Len(st.notes),
                      midiNote |-> event.note,
                      velocity |-> IF noteOn.velocity = Undefined
                                   THEN DefaultVelocity
                                   ELSE <<noteOn.velocity, 127>>,
                      startTime |-> startTime,
                      duration |-> Minus(TicksToSeconds(tempoEvents,
                                             ticksPerBeat, event.time),
                                         startTime),
                      channel |-> event.channel,
                      track |-> track, on |-> on, off |-> i]
         IN  [open |-> st.open \ held, notes |-> Append(st.notes, note)]
    ELSE st

RECURSIVE PairLoop(_, _, _, _, _, _)
PairLoop(events, i, st, track, tempoEvents, ticksPerBeat) ==
    IF i > Len(events) THEN st.notes
    ELSE Only({PairLoop(events, i + 1, next, track, tempoEvents, ticksPerBeat) :
                  next \in {PairStep(events, i, st, track, tempoEvents,
                                     ticksPerBeat)}})

\* The loop of eventsToNotes over the tracks: a new activeNotes map for each.
RECURSIVE PairTracks(_, _, _, _, _)
PairTracks(tracks, t, notes, tempoEvents, ticksPerBeat) ==
    IF t > Len(tracks) THEN notes
    ELSE Only({PairTracks(tracks, t + 1, more, tempoEvents, ticksPerBeat) :
                  more \in {PairLoop(tracks[t], 1,
                                     [open |-> {}, notes |-> notes], t,
                                     tempoEvents, ticksPerBeat)}})

\* notes.sort((a, b) => a.startTime - b.startTime): stable; a NaN difference
\* counts as 0.
RECURSIVE InsertByStartTime(_, _)
InsertByStartTime(sorted, e) ==
    IF sorted = <<>> THEN <<e>>
    ELSE IF ~Positive(Minus(sorted[Len(sorted)].startTime, e.startTime))
         THEN Append(sorted, e)
         ELSE Append(InsertByStartTime(SubSeq(sorted, 1, Len(sorted) - 1), e),
                     sorted[Len(sorted)])

RECURSIVE SortByStartTime(_)
SortByStartTime(notes) ==
    IF notes = <<>> THEN <<>>
    ELSE InsertByStartTime(SortByStartTime(SubSeq(notes, 1, Len(notes) - 1)),
                           notes[Len(notes)])

EventsToNotes(tracks, ticksPerBeat, tempoEvents) ==
    Only({SortByStartTime(PairTracks(tracks, 1, <<>>, sorted, ticksPerBeat)) :
             sorted \in {SortByTime(tempoEvents)}})

----------------------------------------------------------------------------
(* MidiSpec: MIDIParser.parse run on a file, one call of parseHeader,       *)
(* parseTrack and eventsToNotes per step                                    *)

MaxTrackLen == 3     \* events written in a track of the running-status files
MaxPairLen == 4      \* note events written in a track of the pairing files
MaxTempoLen == 3     \* tempo events written in a track of the tempo files
MaxTick == 8         \* ticks at which ticksToSeconds is compared

SeqsUpTo(S, n) == UNION {[1..k -> S] : k \in 0..n}

U16(n) == <<n \div 256, n % 256>>

U32(n) == <<0, 0>> \o U16(n)

\* An event as a file writer puts it in a track: the delta time (as its
\* variable-length bytes), the status byte, the data bytes, and whether the
\* status byte is left out (running status).
Written(dt, status, data) ==
    [dt |-> dt, status |-> status, data |-> data, omit |-> FALSE]

EncodeEvent(e) ==
    e.dt \o (IF e.omit THEN <<>> ELSE <<e.status>>) \o e.data

RECURSIVE EncodeEvents(_)
EncodeEvents(events) ==
    IF events = <<>> THEN <<>>
    ELSE EncodeEvent(Head(events)) \o EncodeEvents(Tail(events))

\* A track chunk; `pad' is what the declared length exceeds the body by.
EncodeTrack(track) ==
    LET body == EncodeEvents(track.events)
    IN  track.sig \o U32(Len(body) + track.pad) \o body

RECURSIVE EncodeTracks(_)
EncodeTracks(tracks) ==
    IF tracks = <<>> THEN <<>>
    ELSE EncodeTrack(Head(tracks)) \o EncodeTracks(Tail(tracks))

\* The bytes of a file; `cut' is the length it is truncated to, if any.
EncodeFile(source) ==
    LET bytes == source.sig \o U32(source.length) \o U16(source.format)
                    \o U16(source.numTracks) \o U16(source.division)
                    \o EncodeTracks(source.tracks)
    IN  IF source.cut = Undefined THEN bytes
        ELSE SubSeq(bytes, 1, source.cut)

Track(events) == [sig |-> MTrk, pad |-> 0, events |-> events]

File(division, tracks) ==
    [sig |-> MThd, length |-> 6, format |-> 1, numTracks |-> Len(tracks),
     division |-> division, tracks |-> tracks, cut |-> Undefined]

\* Events written with every status byte.
OnEvent(dt, channel, key, velocity) == Written(<<dt>>, 144 + channel, <<key, velocity>>)

OffEvent(dt, channel, key) == Written(<<dt>>, 128 + channel, <<key, 64>>)

TempoEvent(dt, tempo) == Written(<<dt>>, 255, <<81, 3, 0, 0, tempo>>)

\* Files whose events may leave out a status byte that repeats the status of
\* the channel event just before.
RunningEvents ==
    { OnEvent(1, 0, 60, 100), OnEvent(0, 0, 60, 0), OffEvent(1, 0, 60),
      Written(<<129, 0>>, 144, <<61, 90>>),
      Written(<<0>>, 176, <<7, 100>>), Written(<<0>>, 192, <<5>>),
      TempoEvent(0, 2) }

MayOmit(events) ==
    {i \in 2..Len(events) :
        /\ events[i].status = events[i - 1].status
        /\ events[i].status \in 128..239}

Omitting(events, positions) ==
    [i \in 1..Len(events) |-> [events[i] EXCEPT !.omit = i \in positions]]

RunningFiles ==
    UNION {{File(96, << Track(Omitting(events, positions)) >>) :
               positions \in (SUBSET MayOmit(events)) \ {{}}} :
           events \in SeqsUpTo(RunningEvents, MaxTrackLen)}

\* Files of note events: one track of up to MaxPairLen events, or two short
\* tracks.
PairEvents ==
    { OnEvent(1, 0, 60, 100), OnEvent(1, 0, 60, 50), OnEvent(1, 0, 60, 0),
      OffEvent(1, 0, 60), OnEvent(0, 0, 61, 80), OffEvent(1, 0, 61),
      OnEvent(0, 1, 60, 70), OffEvent(1, 1, 60) }

PairFiles ==
    {File(1, << Track(events) >>) : events \in SeqsUpTo(PairEvents, MaxPairLen)}
    \cup
    {File(1, << Track(a), Track(b) >>) :
        a \in SeqsUpTo(PairEvents, 2) \ {<<>>},
        b \in SeqsUpTo({OnEvent(1, 0, 60, 0), OffEvent(1, 0, 60),
                        OnEvent(0, 0, 60, 30)}, 2) \ {<<>>}}

\* Files with a tempo map: tempo events at the same tick (delta 0) and a
\* first tempo event after tick 0, in one track or spread over two, with a
\* division of 0, 1 or 2 ticks per beat.
TempoEvents == {TempoEvent(dt, tempo) : dt \in {0, 1, 2}, tempo \in {1, 3}}

Divisions == {0, 1, 2}

TempoFiles ==
    {File(d, << Track(<<OnEvent(0, 0, 60, 100)>> \o tempos
                        \o <<OffEvent(1, 0, 60)>>) >>) :
        d \in Divisions, tempos \in SeqsUpTo(TempoEvents, MaxTempoLen)}
    \cup
    {File(d, << Track(tempos),
                Track(<<TempoEvent(1, 2), OnEvent(1, 0, 60, 100),
                        OffEvent(2, 0, 60)>>) >>) :
        d \in Divisions, tempos \in SeqsUpTo(TempoEvents, 2)}

\* Files that are not well formed: a wrong signature, a header length other
\* than 6, fewer track chunks than the header declares, a track longer than
\* the file, a chunk that is not MTrk, and a good file cut at every length.
GoodFile == File(96, << Track(<<OnEvent(0, 0, 60, 100), OffEvent(1, 0, 60)>>) >>)

MalformedFiles ==
    { [GoodFile EXCEPT !.sig = <<77, 84, 104, 120>>],
      [GoodFile EXCEPT !.length = 7],
      [GoodFile EXCEPT !.numTracks = 2],
      [GoodFile EXCEPT !.tracks[1].pad = 3],
      [GoodFile EXCEPT !.tracks[1].sig = <<77, 84, 114, 120>>] }
    \cup
    {[GoodFile EXCEPT !.cut = n] : n \in 0..(Len(EncodeFile(GoodFile)) - 1)}

\* Files of two tracks whose first track declares fewer bytes than its last
\* event or its meta or system-exclusive data takes.
OverrunFiles ==
    {File(96, <<[Track(events) EXCEPT !.pad = pad], GoodFile.tracks[1]>>) :
        pad \in {-1, -2, -3},
        events \in {<<OnEvent(0, 0, 60, 100), OffEvent(1, 0, 60)>>,
                    <<OnEvent(0, 0, 62, 90), Written(<<0>>, 255, <<1, 4, 0>>)>>,
                    <<OnEvent(0, 0, 64, 80), Written(<<0>>, 240, <<5, 0, 0>>)>>}}

\* The families of files the parser is run on.
MidiFiles ==
    <<RunningFiles, PairFiles, TempoFiles, MalformedFiles, OverrunFiles>>

\* The parser after `this.data = new DataView(arrayBuffer); this.position = 0'.
\* `source' and `spans' are observers: the file as it was written, and where
\* each parseTrack call began and ended.
NewMidi(source) ==
    [pc |-> "header", source |-> source, data |-> EncodeFile(source),
     position |-> 0, numTracks |-> 0, ticksPerBeat |-> 0, i |-> 0,
     tracks |-> <<>>, spans |-> <<>>, tempoEvents |-> <<>>, notes |-> <<>>,
     error |-> ""]

PlaybackAtRest ==
    /\ clock = 0
    /\ ctx = <<>>
    /\ seq = <<>>
    /\ synth = <<>>
    /\ timers = {}
    /\ nextTimer = 1
    /\ mgr = NoManager
    /\ player = NoPlayer
    /\ obs = <<>>
    /\ last = NoStep
    /\ faults = NoFaults

MidiInit ==
    /\ PlaybackAtRest
    /\ abc = NoAbc
    /\ xml = NoXml
    /\ \E family \in DOMAIN MidiFiles :
          \E source \in MidiFiles[family] : midi = NewMidi(source)

\* parse(): the call of parseHeader and the throw that follows a null header.
MidiParseHeader ==
    /\ midi.pc = "header"
    /\ LET header == ParseHeader(midi.data) IN
       midi' = IF header.thrown
               THEN [midi EXCEPT !.pc = "thrown", !.error = "RangeError"]
               ELSE IF header.null
               THEN [midi EXCEPT !.pc = "thrown", !.error = "Invalid MIDI file",
                                 !.position = header.position]
               ELSE [midi EXCEPT !.pc = "tracks",
                                 !.position = header.position,
                                 !.numTracks = header.numTracks,
                                 !.ticksPerBeat = header.ticksPerBeat]
    /\ UNCHANGED <<playback, faults, abc, xml>>

\* parse(): one iteration of the loop over the tracks.
MidiParseTrack ==
    /\ midi.pc = "tracks"
    /\ midi.i < midi.numTracks
    /\ LET track == ParseTrack(midi.data, midi.position)
           span == [start |-> midi.position, end |-> track.position,
                    null |-> track.null]
       IN
       midi' = IF track.thrown
               THEN [midi EXCEPT !.pc = "thrown", !.error = "RangeError"]
               ELSE IF track.null
               THEN [midi EXCEPT !.i = @ + 1, !.position = track.position,
                                 !.spans = Append(@, span)]
               ELSE [midi EXCEPT !.i = @ + 1, !.position = track.position,
                                 !.spans = Append(@, span),
                                 !.tracks = Append(@, track.events),
                                 !.tempoEvents = @ \o TempoEventsOf(track.events)]
    /\ UNCHANGED <<playback, faults, abc, xml>>

\* parse(): the default tempo and the call of eventsToNotes.
MidiEventsToNotes ==
    /\ midi.pc = "tracks"
    /\ midi.i >= midi.numTracks
    /\ LET tempoEvents == IF midi.tempoEvents = <<>>
                          THEN << [time |-> 0, tempo |-> DefaultTempo] >>
                          ELSE midi.tempoEvents
       IN  midi' = [midi EXCEPT
                       !.pc = "done",
                       !.tempoEvents = SortByTime(tempoEvents),
                       !.notes = EventsToNotes(midi.tracks, midi.ticksPerBeat,
                                               tempoEvents)]
    /\ UNCHANGED <<playback, faults, abc, xml>>

MidiNext == MidiParseHeader \/ MidiParseTrack \/ MidiEventsToNotes

MidiSpec == MidiInit /\ [][MidiNext]_vars

----------------------------------------------------------------------------
(* Claims about MIDIParser, checked under MidiSpec *)

\* C13: MIDIParser.parse never raises: for a wrong signature, a header length
\* other than 6 and an input that ends early it returns a result and does not
\* throw.
C13_ParseNeverRaises == midi.pc # "thrown"

\* The file was written with some status byte left out.
HasOmitted(source) ==
    \E k \in DOMAIN source.tracks :
        \E i \in DOMAIN source.tracks[k].events : source.tracks[k].events[i].omit

\* The same track with every status byte written.
Explicit(track) == [track EXCEPT !.events = Omitting(@, {})]

\* C15: a track in which channel events leave out the status byte they share
\* with the event before decodes to the same events, and leaves the cursor at
\* the end of the chunk, as the same track with every status byte written.
C15_RunningStatusEquivalent ==
    HasOmitted(midi.source) =>
        /\ midi.pc # "thrown"
        /\ \A k \in DOMAIN midi.spans :
              LET written == midi.source.tracks[k]
                  bytes == EncodeTrack(Explicit(written))
                  explicit == ParseTrack(bytes, 0)
              IN  /\ ~midi.spans[k].null
                  /\ ~explicit.null /\ ~explicit.thrown
                  /\ midi.tracks[k] = explicit.events
                  /\ midi.spans[k].end - midi.spans[k].start
                        = Len(EncodeTrack(written))
                  /\ explicit.position = Len(bytes)

\* C15's case: a track parsed to the end in which a note-on left out its
\* status byte and was decoded together with the event before it.
C15_Witness ==
    /\ midi.pc = "done"
    /\ \E i \in DOMAIN midi.source.tracks[1].events :
          /\ midi.source.tracks[1].events[i].omit
          /\ midi.source.tracks[1].events[i].status = 144
    /\ Len(midi.tracks[1]) >= 2

\* C26: decoding one track chunk consumes exactly its declared byte length:
\* after parseTrack the cursor is at the chunk's data start (8 bytes after the
\* chunk's start) plus the declared length.
C26_TrackConsumesDeclaredLength ==
    \A k \in DOMAIN midi.spans :
        ~midi.spans[k].null =>
            midi.spans[k].end
                = midi.spans[k].start + 8
                    + ReadUint32(midi.data, Reader(midi.spans[k].start + 4)).value

SameKey(a, b) == a.channel = b.channel /\ a.note = b.note

\* C16: every resolved note comes from one pair of events of one track, a
\* note-on and the next closing event (note-off or zero-velocity note-on) on
\* its channel and note number, the note-on being the latest on that key
\* before the closer; the note carries the note-on's velocity; no two notes
\* share an opener or a closer; and a note-on with no later closing event on
\* its key in its track opens no note.
C16_NotesArePairs ==
    midi.pc = "done" =>
        /\ \A k \in DOMAIN midi.notes :
              LET n == midi.notes[k] IN
              /\ n.track \in DOMAIN midi.tracks
              /\ LET events == midi.tracks[n.track] IN
                 /\ n.on \in DOMAIN events /\ n.off \in DOMAIN events
                 /\ n.on < n.off
                 /\ events[n.on].type = "noteOn"
                 /\ events[n.off].type = "noteOff"
                 /\ SameKey(events[n.on], events[n.off])
                 /\ n.midiNote = events[n.on].note
                 /\ n.channel = events[n.on].channel
                 /\ n.velocity = <<events[n.on].velocity, 127>>
                 /\ n.startTime = TicksToSeconds(midi.tempoEvents,
                                      midi.ticksPerBeat, events[n.on].time)
                 /\ \A j \in (n.on + 1)..(n.off - 1) :
                       ~SameKey(events[j], events[n.on])
        /\ \A k, l \in DOMAIN midi.notes :
              k # l =>
                  /\ midi.notes[k].noteId # midi.notes[l].noteId
                  /\ <<midi.notes[k].track, midi.notes[k].on>>
                        # <<midi.notes[l].track, midi.notes[l].on>>
                  /\ <<midi.notes[k].track, midi.notes[k].off>>
                        # <<midi.notes[l].track, midi.notes[l].off>>
        /\ \A t \in DOMAIN midi.tracks :
              \A i \in DOMAIN midi.tracks[t] :
                  LET events == midi.tracks[t] IN
                  (/\ events[i].type = "noteOn"
                   /\ ~\E j \in (i + 1)..Len(events) :
                          events[j].type = "noteOff" /\ SameKey(events[j], events[i]))
                      => ~\E k \in DOMAIN midi.notes :
                             midi.notes[k].track = t /\ midi.notes[k].on = i

\* C16's case: a key opened, opened again with another velocity and closed by
\* a zero-velocity note-on, in a file that also has a note-on never closed.
C16_Witness ==
    /\ midi.pc = "done"
    /\ \E k \in DOMAIN midi.notes :
          LET n == midi.notes[k]
              events == midi.tracks[n.track]
          IN  /\ events[n.off].velocity = 0
              /\ \E i \in 1..(n.on - 1) :
                    /\ events[i].type = "noteOn"
                    /\ SameKey(events[i], events[n.on])
                    /\ events[i].velocity # events[n.on].velocity
    /\ \E t \in DOMAIN midi.tracks :
          \E i \in DOMAIN midi.tracks[t] :
              /\ midi.tracks[t][i].type = "noteOn"
              /\ ~\E k \in DOMAIN midi.notes :
                     midi.notes[k].track = t /\ midi.notes[k].on = i
              /\ ~\E j \in (i + 1)..Len(midi.tracks[t]) :
                     SameKey(midi.tracks[t][j], midi.tracks[t][i])

\* C17: with the file's sorted tempo map, ticksToSeconds is monotonic,
\* ticksToSeconds(t1) <= ticksToSeconds(t2) for all ticks t1 < t2, and every
\* resolved note has a duration >= 0.
C17_TicksToSecondsMonotonic ==
    midi.pc = "done" =>
        /\ \A t1, t2 \in 0..MaxTick :
              t1 < t2 =>
                  Leq(TicksToSeconds(midi.tempoEvents, midi.ticksPerBeat, t1),
                      TicksToSeconds(midi.tempoEvents, midi.ticksPerBeat, t2))
        /\ \A k \in DOMAIN midi.notes : NonNegative(midi.notes[k].duration)

----------------------------------------------------------------------------
(* ABCPlusParser: characters, numbers and durations *)

\* A string is a sequence of one-character strings; positions count from 0 as
\* in the code.
Min(a, b) == IF a <= b THEN a ELSE b

\* line[k]: "" stands for undefined (k is past the end).
At(line, k) == IF k >= 0 /\ k < Len(line) THEN line[k + 1] ELSE ""

\* line.slice(a, b) for 0 <= a.
Slice(line, a, b) == SubSeq(line, a + 1, Min(b, Len(line)))

StartsWith(line, prefix) ==
    Len(line) >= Len(prefix) /\ SubSeq(line, 1, Len(prefix)) = prefix

Digits == <<"0", "1", "2", "3", "4", "5", "6", "7", "8", "9">>

IsDigit(c) == c \in Range(Digits)

IsDigits(string) == \A k \in DOMAIN string : IsDigit(string[k])

\* parseInt(string, 10) of a non-empty string of digits.
RECURSIVE ParseInt(_)
ParseInt(string) ==
    IF string = <<>> THEN 0
    ELSE 10 * ParseInt(SubSeq(string, 1, Len(string) - 1))
            + (CHOOSE d \in 0..9 : Digits[d + 1] = string[Len(string)])

\* The first position from j on whose character is not in `chars' (the
\* `while (j < line.length && ...) j++' loops).
RECURSIVE SkipWhile(_, _, _)
SkipWhile(line, j, chars) ==
    IF j < Len(line) /\ At(line, j) \in chars
    THEN SkipWhile(line, j + 1, chars)
    ELSE j

\* The first position from j on whose character is c, or line.length.
RECURSIVE SkipUntil(_, _, _)
SkipUntil(line, j, c) ==
    IF j < Len(line) /\ At(line, j) # c
    THEN SkipUntil(line, j + 1, c)
    ELSE j

\* Durations are doubles in the code; here a fraction <<n, d>> in lowest
\* terms with d >= 0, where <<1, 0>> is Infinity and <<0, 0>> is NaN (what a
\* division by 0 gives).
RECURSIVE GCD(_, _)
GCD(a, b) == IF b = 0 THEN a ELSE GCD(b, a % b)

Abs(n) == IF n < 0 THEN 0 - n ELSE n

Fraction(n, d) ==
    IF d = 0 THEN <<IF n > 0 THEN 1 ELSE IF n < 0 THEN -1 ELSE 0, 0>>
    ELSE IF n = 0 THEN <<0, 1>>
    ELSE LET g == GCD(Abs(n), Abs(d)) IN <<n \div g, d \div g>>

Times(a, b) == Fraction(a[1] * b[1], a[2] * b[2])

Over(a, n) == Fraction(a[1], a[2] * n)

Sum(a, b) ==
    IF a[2] # 0 /\ b[2] # 0
    THEN Fraction(a[1] * b[2] + b[1] * a[2], a[2] * b[2])
    ELSE IF a = <<0, 0>> \/ b = <<0, 0>> THEN <<0, 0>>
    ELSE IF a[2] # 0 THEN b
    ELSE IF b[2] # 0 \/ a = b THEN a
    ELSE <<0, 0>>

Difference(a, b) == Sum(a, <<0 - b[1], b[2]>>)

\* The variant of parseDuration in which a full fraction is the duration
\* itself, which C19 must tell apart.
ParseDurationReplacing(modifier, defaultLength) ==
    IF modifier = <<>> THEN defaultLength
    ELSE IF IsDigits(modifier)
    THEN Times(defaultLength, <<ParseInt(modifier), 1>>)
    ELSE IF Head(modifier) = "/" /\ IsDigits(Tail(modifier))
    THEN Over(defaultLength,
              IF Tail(modifier) # <<>> THEN ParseInt(Tail(modifier)) ELSE 2)
    ELSE IF \E k \in 2..(Len(modifier) - 1) :
               /\ modifier[k] = "/"
               /\ IsDigits(SubSeq(modifier, 1, k - 1))
               /\ IsDigits(SubSeq(modifier, k + 1, Len(modifier)))
    THEN LET k == CHOOSE k \in 2..(Len(modifier) - 1) : modifier[k] = "/"
         IN  Fraction(ParseInt(SubSeq(modifier, 1, k - 1)),
                      ParseInt(SubSeq(modifier, k + 1, Len(modifier))))
    ELSE defaultLength

\* The variant of parseDuration in which a slash without a divisor divides
\* by 1, which C18 must tell apart.
ParseDurationWhole(modifier, defaultLength) ==
    IF modifier = <<>> THEN defaultLength
    ELSE IF IsDigits(modifier)
    THEN Times(defaultLength, <<ParseInt(modifier), 1>>)
    ELSE IF Head(modifier) = "/" /\ IsDigits(Tail(modifier))
    THEN Over(defaultLength,
              IF Tail(modifier) # <<>> THEN ParseInt(Tail(modifier)) ELSE 1)
    ELSE IF \E k \in 2..(Len(modifier) - 1) :
               /\ modifier[k] = "/"
               /\ IsDigits(SubSeq(modifier, 1, k - 1))
               /\ IsDigits(SubSeq(modifier, k + 1, Len(modifier)))
    THEN LET k == CHOOSE k \in 2..(Len(modifier) - 1) : modifier[k] = "/"
         IN  Times(Fraction(ParseInt(SubSeq(modifier, 1, k - 1)),
                            ParseInt(SubSeq(modifier, k + 1, Len(modifier)))),
                   defaultLength)
    ELSE defaultLength

\* parseDuration: the three forms /^(\d+)$/, /^\/(\d*)$/ and /^(\d+)\/(\d+)$/,
\* tried in this order.
ParseDuration(modifier, defaultLength) ==
    IF modifier = <<>> THEN defaultLength
    ELSE IF IsDigits(modifier)
    THEN Times(defaultLength, <<ParseInt(modifier), 1>>)
    ELSE IF Head(modifier) = "/" /\ IsDigits(Tail(modifier))
    THEN Over(defaultLength,
              IF Tail(modifier) # <<>> THEN ParseInt(Tail(modifier)) ELSE 2)
    ELSE IF \E k \in 2..(Len(modifier) - 1) :
               /\ modifier[k] = "/"
               /\ IsDigits(SubSeq(modifier, 1, k - 1))
               /\ IsDigits(SubSeq(modifier, k + 1, Len(modifier)))
    THEN LET k == CHOOSE k \in 2..(Len(modifier) - 1) : modifier[k] = "/"
         IN  Times(Fraction(ParseInt(SubSeq(modifier, 1, k - 1)),
                            ParseInt(SubSeq(modifier, k + 1, Len(modifier)))),
                   defaultLength)
    ELSE defaultLength

\* parseFraction: the leftmost match of /(\d+)\/(\d+)/ in the header value,
\* 1/8 when there is none.
ParseFraction(frac) ==
    LET starts == {a \in 0..(Len(frac) - 1) :
                      /\ IsDigit(At(frac, a))
                      /\ At(frac, SkipWhile(frac, a, Range(Digits))) = "/"
                      /\ IsDigit(At(frac, SkipWhile(frac, a, Range(Digits)) + 1))}
    IN  IF starts = {} THEN <<1, 8>>
        ELSE LET a == CHOOSE a \in starts : \A b \in starts : a <= b
                 slash == SkipWhile(frac, a, Range(Digits))
                 end == SkipWhile(frac, slash + 1, Range(Digits))
             IN  Fraction(ParseInt(Slice(frac, a, slash)),
                          ParseInt(Slice(frac, slash + 1, end)))

----------------------------------------------------------------------------
(* ABCPlusParser: tokens and elements *)

NoteChars ==
    {"A", "B", "C", "D", "E", "F", "G", "a", "b", "c", "d", "e", "f", "g", "z"}

IsNoteChar(c) == c \in NoteChars

Accidentals == {"^", "_", "="}

OctaveMarkers == {"'", ","}

DurationChars == Range(Digits) \cup {"/"}

\* One iteration of the while loop of tokenizeLine, at position i < length.
TokenizeStep(line, i, tokens) ==
    LET char == At(line, i) IN
    IF char \in {" ", "\t"}
    THEN [i |-> i + 1, tokens |-> tokens]
    ELSE IF char = "|"
    THEN IF At(line, i + 1) = "]"
         THEN [i |-> i + 2, tokens |-> Append(tokens, <<"|", "]">>)]
         ELSE IF At(line, i + 1) = "|"
         THEN [i |-> i + 2, tokens |-> Append(tokens, <<"|", "|">>)]
         ELSE IF At(line, i + 1) = ":"
         THEN [i |-> i + 2, tokens |-> Append(tokens, <<"|", ":">>)]
         ELSE [i |-> i + 1, tokens |-> Append(tokens, <<"|">>)]
    ELSE IF char = ":" /\ At(line, i + 1) = "|"
    THEN [i |-> i + 2, tokens |-> Append(tokens, <<":", "|">>)]
    ELSE IF char = "\""
    THEN LET j == SkipUntil(line, i + 1, "\"")
         IN  [i |-> j + 1, tokens |-> Append(tokens, Slice(line, i, j + 1))]
    ELSE IF char = "!"
    THEN [i |-> SkipUntil(line, i + 1, "!") + 1, tokens |-> tokens]
    ELSE IF IsNoteChar(char) \/ char \in {"z", "Z"} \/ char \in Accidentals
    THEN LET j1 == SkipWhile(line, i, Accidentals)
             j2 == IF j1 < Len(line) /\ IsNoteChar(At(line, j1))
                   THEN j1 + 1 ELSE j1
             j3 == SkipWhile(line, j2, OctaveMarkers)
             j4 == SkipWhile(line, j3, DurationChars)
         IN  [i |-> j4, tokens |-> Append(tokens, Slice(line, i, j4))]
    ELSE [i |-> i + 1, tokens |-> tokens]

\* letterToMidi: baseMap[letter] || 60.
BaseMap ==
    [letter \in {"C", "D", "E", "F", "G", "A", "B",
                 "c", "d", "e", "f", "g", "a", "b"} |->
        CASE letter = "C" -> 48 [] letter = "D" -> 50 [] letter = "E" -> 52
          [] letter = "F" -> 53 [] letter = "G" -> 55 [] letter = "A" -> 57
          [] letter = "B" -> 59 [] letter = "c" -> 60 [] letter = "d" -> 62
          [] letter = "e" -> 64 [] letter = "f" -> 65 [] letter = "g" -> 67
          [] letter = "a" -> 69 [] letter = "b" -> 71]

LetterToMidi(letter) ==
    IF letter \in DOMAIN BaseMap THEN BaseMap[letter] ELSE 60

\* The first loop of parseNotePitch: ^ adds 1, _ subtracts 1, = resets to 0.
RECURSIVE AccidentalLoop(_, _, _)
AccidentalLoop(token, i, accidental) ==
    IF i < Len(token) /\ At(token, i) = "^"
    THEN AccidentalLoop(token, i + 1, accidental + 1)
    ELSE IF i < Len(token) /\ At(token, i) = "_"
    THEN AccidentalLoop(token, i + 1, accidental - 1)
    ELSE IF i < Len(token) /\ At(token, i) = "="
    THEN AccidentalLoop(token, i + 1, 0)
    ELSE [i |-> i, accidental |-> accidental]

\* The second loop of parseNotePitch: ' adds an octave, a comma subtracts one.
RECURSIVE OctaveLoop(_, _, _)
OctaveLoop(token, i, octaveShift) ==
    IF i < Len(token) /\ At(token, i) = "'"
    THEN OctaveLoop(token, i + 1, octaveShift + 1)
    ELSE IF i < Len(token) /\ At(token, i) = ","
    THEN OctaveLoop(token, i + 1, octaveShift - 1)
    ELSE [i |-> i, octaveShift |-> octaveShift]

ParseNotePitch(token) ==
    LET acc == AccidentalLoop(token, 0, 0)
        letter == At(token, acc.i)
        oct == OctaveLoop(token, acc.i + 1, 0)
    IN  [pitch |-> Slice(token, 0, oct.i),
         midiNote |-> LetterToMidi(letter) + acc.accidental
                         + oct.octaveShift * 12,
         lengthModifier |-> Slice(token, oct.i, Len(token))]

NoElement == [id |-> "null"]

\* The velocity every Note gets: 0.8.
NoteVelocity == <<4, 5>>

\* parseElement; `token' in the element is an observer.
ParseElement(token, id, startTime, voice, measure, defaultLength) ==
    IF token = <<>> THEN NoElement
    ELSE IF StartsWith(token, <<"z">>) \/ StartsWith(token, <<"Z">>)
    THEN [id |-> <<"rest", id>>, duration |-> ParseDuration(Tail(token),
                                                           defaultLength),
          startTime |-> startTime, voice |-> voice, measure |-> measure,
          token |-> token]
    ELSE LET pitch == ParseNotePitch(token)
         IN  [id |-> <<"note", id>>, pitch |-> pitch.pitch,
              midiNote |-> pitch.midiNote,
              duration |-> ParseDuration(pitch.lengthModifier, defaultLength),
              startTime |-> startTime, velocity |-> NoteVelocity,
              voice |-> voice, measure |-> measure, token |-> token]

----------------------------------------------------------------------------
(* ABCPlusParser: parseHeaders and parseBody *)

Whitespace == {" ", "\t"}

UpperCase ==
    {"A", "B", "C", "D", "E", "F", "G", "H", "I", "J", "K", "L", "M", "N",
     "O", "P", "Q", "R", "S", "T", "U", "V", "W", "X", "Y", "Z"}

LowerCase ==
    {"a", "b", "c", "d", "e", "f", "g", "h", "i", "j", "k", "l", "m", "n",
     "o", "p", "q", "r", "s", "t", "u", "v", "w", "x", "y", "z"}

RECURSIVE TrimEnd(_)
TrimEnd(line) ==
    IF line # <<>> /\ line[Len(line)] \in Whitespace
    THEN TrimEnd(SubSeq(line, 1, Len(line) - 1))
    ELSE line

\* line.trim()
Trim(line) ==
    TrimEnd(Slice(line, SkipWhile(line, 0, Whitespace), Len(line)))

\* The default headers.L.
DefaultL == <<"1", "/", "8">>

\* The loop of parseHeaders, as far as headers.L goes: blank lines and
\* comments are skipped, the first line that is no field ends the loop, and
\* an L: line sets headers.L to what follows the colon and its whitespace.
RECURSIVE HeadersLoop(_, _, _)
HeadersLoop(lines, k, L) ==
    IF k > Len(lines) THEN L
    ELSE LET trimmed == Trim(lines[k]) IN
         IF trimmed = <<>> \/ StartsWith(trimmed, <<"%">>)
         THEN HeadersLoop(lines, k + 1, L)
         ELSE IF ~(/\ At(trimmed, 0) \in UpperCase \cup LowerCase
                   /\ At(trimmed, 1) = ":")
         THEN L
         ELSE IF At(trimmed, 0) = "L"
         THEN HeadersLoop(lines, k + 1,
                  Slice(trimmed, SkipWhile(trimmed, 2, Whitespace),
                        Len(trimmed)))
         ELSE HeadersLoop(lines, k + 1, L)

ParseHeadersL(lines) == HeadersLoop(lines, 1, DefaultL)

\* The index after the first line starting with K:, 0 when there is none.
BodyStartIndex(lines) ==
    LET keys == {i \in 0..(Len(lines) - 1) :
                    StartsWith(Trim(lines[i + 1]), <<"K", ":">>)}
    IN  IF keys = {} THEN 0
        ELSE (CHOOSE i \in keys : \A j \in keys : i <= j) + 1

CreateMeasure(number, startTime) ==
    [number |-> number, startTime |-> startTime, duration |-> <<0, 1>>,
     elements |-> <<>>, barlineType |-> "undefined"]

Barlines ==
    {<<"|">>, <<"|", "]">>, <<"|", "|">>, <<":", "|">>, <<"|", ":">>}

BarlineType(token, old) ==
    IF token = <<"|", "]">> THEN "final"
    ELSE IF token = <<"|", "|">> THEN "double"
    ELSE IF token = <<"|", ":">> THEN "repeat-start"
    ELSE IF token = <<":", "|">> THEN "repeat-end"
    ELSE old

\* measures.reduce((sum, m) => sum + m.duration, 0)
RECURSIVE TotalDuration(_)
TotalDuration(measures) ==
    IF measures = <<>> THEN <<0, 1>>
    ELSE Sum(TotalDuration(SubSeq(measures, 1, Len(measures) - 1)),
             measures[Len(measures)].duration)

\* The iterations of tokenizeLine followed on one line.
MaxIterations == 12

\* The parser at the start of the loop over the lines in parseBody.
\* `previous' and `iterations' are observers of tokenizeLine: the scan
\* position before its latest iteration and the number of iterations made.
NewAbc(lines) ==
    [pc |-> "lines",
     lines |-> lines,
     defaultLength |-> ParseFraction(ParseHeadersL(lines)),
     lineIndex |-> BodyStartIndex(lines),
     line |-> <<>>,
     i |-> 0,
     previous |-> -1,
     iterations |-> 0,
     tokens |-> <<>>,
     k |-> 0,
     measures |-> <<>>,
     currentMeasure |-> CreateMeasure(1, <<0, 1>>),
     currentVoice |-> <<"V", "1">>,
     voices |-> (<<"V", "1">> :> <<>>),
     beatPosition |-> <<0, 1>>,
     noteIdCounter |-> 0,
     totalDuration |-> <<0, 1>>]

\* One line of the body: skipped, a voice change, or handed to tokenizeLine.
AbcLine ==
    /\ abc.pc = "lines"
    /\ abc.lineIndex < Len(abc.lines)
    /\ LET line == Trim(abc.lines[abc.lineIndex + 1])
           name == Slice(line, 2, SkipWhile(line, 2,
                                     Range(line) \ Whitespace))
       IN  abc' =
             IF line = <<>> \/ StartsWith(line, <<"%">>)
             THEN [abc EXCEPT !.lineIndex = @ + 1]
             ELSE IF StartsWith(line, <<"V", ":">>) /\ name # <<>>
             THEN [abc EXCEPT !.lineIndex = @ + 1,
                              !.currentVoice = name,
                              !.voices = IF name \in DOMAIN @ THEN @
                                         ELSE @ @@ (name :> <<>>)]
             ELSE IF StartsWith(line, <<"V", ":">>)
             THEN [abc EXCEPT !.lineIndex = @ + 1]
             ELSE [abc EXCEPT !.pc = "tokenize", !.line = line, !.i = 0,
                              !.previous = -1, !.iterations = 0,
                              !.tokens = <<>>]
    /\ UNCHANGED <<playback, faults, midi, xml>>

\* One iteration of the while loop of tokenizeLine.
AbcTokenize ==
    /\ abc.pc = "tokenize"
    /\ abc.i < Len(abc.line)
    /\ abc.iterations < MaxIterations
    /\ LET next == TokenizeStep(abc.line, abc.i, abc.tokens)
       IN  abc' = [abc EXCEPT !.i = next.i, !.tokens = next.tokens,
                              !.previous = abc.i, !.iterations = @ + 1]
    /\ UNCHANGED <<playback, faults, midi, xml>>

\* tokenizeLine returns.
AbcTokens ==
    /\ abc.pc = "tokenize"
    /\ abc.i >= Len(abc.line)
    /\ abc' = [abc EXCEPT !.pc = "tokens", !.k = 0]
    /\ UNCHANGED <<playback, faults, midi, xml>>

\* One token of the line in parseBody.
AbcToken ==
    /\ abc.pc = "tokens"
    /\ abc.k < Len(abc.tokens)
    /\ LET token == abc.tokens[abc.k + 1]
           current == abc.currentMeasure
           element == ParseElement(token, abc.noteIdCounter, abc.beatPosition,
                          abc.currentVoice, current.number, abc.defaultLength)
       IN  abc' =
             IF token \in Barlines
             THEN LET measures ==
                          IF Len(current.elements) > 0
                          THEN Append(abc.measures,
                                   [current EXCEPT
                                       !.duration = Difference(abc.beatPosition,
                                                        current.startTime),
                                       !.barlineType = BarlineType(token, @)])
                          ELSE abc.measures
                  IN  [abc EXCEPT !.k = @ + 1,
                                  !.measures = measures,
                                  !.currentMeasure =
                                      CreateMeasure(Len(measures) + 1,
                                                    abc.beatPosition)]
             ELSE IF StartsWith(token, <<"\"">>)
             THEN [abc EXCEPT !.k = @ + 1]
             ELSE IF element = NoElement
             THEN [abc EXCEPT !.k = @ + 1, !.noteIdCounter = @ + 1]
             ELSE [abc EXCEPT !.k = @ + 1, !.noteIdCounter = @ + 1,
                              !.currentMeasure.elements = Append(@, element),
                              !.voices[abc.currentVoice] = Append(@, element),
                              !.beatPosition = Sum(@, element.duration)]
    /\ UNCHANGED <<playback, faults, midi, xml>>

\* The tokens of the line are used up.
AbcLineEnd ==
    /\ abc.pc = "tokens"
    /\ abc.k >= Len(abc.tokens)
    /\ abc' = [abc EXCEPT !.pc = "lines", !.lineIndex = @ + 1]
    /\ UNCHANGED <<playback, faults, midi, xml>>

\* The end of parseBody and of parse(): the measure left open is kept if it
\* has content, and the durations of the measures are summed.
AbcReturn ==
    /\ abc.pc = "lines"
    /\ abc.lineIndex >= Len(abc.lines)
    /\ LET current == abc.currentMeasure
           measures ==
               IF Len(current.elements) > 0
               THEN Append(abc.measures,
                        [current EXCEPT
                            !.duration = Difference(abc.beatPosition,
                                             current.startTime)])
               ELSE abc.measures
       IN  abc' = [abc EXCEPT !.pc = "done", !.measures = measures,
                              !.totalDuration = TotalDuration(measures)]
    /\ UNCHANGED <<playback, faults, midi, xml>>

----------------------------------------------------------------------------
(* AbcSpec: ABCPlusParser.parse on bounded texts *)

MaxLineLen == 3

AbcChars == {"C", "z", "Z", "^", "'", "2", "/", "|", " "}

\* What comes before the body: nothing, a K: line, or an L: and a K: line.
AbcHeads ==
    {<<>>,
     <<<<"K", ":", "C">>>>,
     <<<<"L", ":", "1", "/", "4">>, <<"K", ":", "C">>>>}

\* Longer lines: the three suffix forms, octave marks up to and past the ends
\* of the MIDI range, accidentals, and rests.
AbcLines ==
    {<<"C", "2", " ", "C", "/", "2", " ", "C", "3", "/", "2", ":", "|",
       "C", "/">>,
     <<"b", "'", "'", "'", "'", "'", " ",
       "c", "'", "'", "'", "'", "'", "'", "|">>,
     <<"C", ",", ",", ",", ",", ",", " ",
       "_", "C", ",", ",", ",", ",", "|", "]">>,
     <<"=", "c", "'", "3", "/", "2", " ", "^", "z", " ",
       "z", "3", "/", "2">>}

\* Texts with field lines in or before the body: a title and no K: line, a
\* w: lyrics line after the music, and voice changes.
AbcFieldTexts ==
    {<<<<"T", ":", "A", "b">>, <<"C", "2">>>>,
     <<<<"K", ":", "C">>, <<"C", "2", "|">>, <<"w", ":", " ", "a", "|", "d">>>>,
     <<<<"K", ":", "C">>, <<"C">>, <<"V", ":", "2">>, <<"z", "2", "|">>,
       <<"V", ":", "V", "1">>, <<"c", "|">>>>,
     <<<<"K", ":", "C">>, <<"%", "C">>, <<>>, <<"V", ":">>, <<"C", "|">>>>}

AbcTexts ==
    {head \o <<line>> :
        head \in AbcHeads, line \in SeqsUpTo(AbcChars, MaxLineLen) \cup AbcLines}
        \cup AbcFieldTexts

AbcInit ==
    /\ PlaybackAtRest
    /\ midi = NoMidi
    /\ xml = NoXml
    /\ \E lines \in AbcTexts : abc = NewAbc(lines)

AbcNext ==
    \/ AbcLine
    \/ AbcTokenize
    \/ AbcTokens
    \/ AbcToken
    \/ AbcLineEnd
    \/ AbcReturn

AbcSpec == AbcInit /\ [][AbcNext]_vars

----------------------------------------------------------------------------
(* Claims about ABCPlusParser, checked under AbcSpec *)

\* C14: in tokenizeLine the scan position strictly advances on every
\* iteration of the loop, the iterations for z, Z and accidentals not
\* followed by a pitch included, so that parse terminates.
C14_ScanPositionAdvances ==
    abc.pc = "tokenize" => abc.i > abc.previous

\* The elements parseBody has stored so far.
Stored ==
    UNION {Range(abc.measures[m].elements) : m \in DOMAIN abc.measures}
        \cup Range(abc.currentMeasure.elements)

StoredToken(token) == {e \in Stored : e.token = token}

\* C18: with the default unit length 1/8, token C2 gets duration 1/4 (0.25),
\* C/2 and C/ get 1/16 (0.0625) and C3/2 gets 3/16 (0.1875).
C18_SuffixForms ==
    abc.defaultLength = <<1, 8>> =>
        /\ \A e \in StoredToken(<<"C", "2">>) : e.duration = <<1, 4>>
        /\ \A e \in StoredToken(<<"C", "/", "2">>) : e.duration = <<1, 16>>
        /\ \A e \in StoredToken(<<"C", "/">>) : e.duration = <<1, 16>>
        /\ \A e \in StoredToken(<<"C", "3", "/", "2">>) : e.duration = <<3, 16>>

\* C18's case: a text with default unit length 1/8 parsed to the end, with
\* all four tokens stored.
C18_Witness ==
    /\ abc.pc = "done"
    /\ abc.defaultLength = <<1, 8>>
    /\ StoredToken(<<"C", "2">>) # {}
    /\ StoredToken(<<"C", "/", "2">>) # {}
    /\ StoredToken(<<"C", "/">>) # {}
    /\ StoredToken(<<"C", "3", "/", "2">>) # {}

\* The token is a letter, with or without accidentals before it and octave
\* marks after it, followed by the full fraction n/d.
EndsWithRatio(token, n, d) ==
    /\ Len(token) >= 4
    /\ Slice(token, Len(token) - 3, Len(token))
          = <<Digits[n + 1], "/", Digits[d + 1]>>
    /\ \E k \in 0..(Len(token) - 4) :
          /\ At(token, k) \in NoteChars
          /\ \A j \in 0..(k - 1) : At(token, j) \in Accidentals
          /\ \A j \in (k + 1)..(Len(token) - 4) : At(token, j) \in OctaveMarkers

\* C19, as the code has it: for a note token with a full
\* numerator/denominator suffix, the element's duration is that ratio
\* multiplied by the header's default unit length.
C19_RatioTimesDefault ==
    \A e \in Stored :
        \A n, d \in 1..9 :
            e.id[1] = "note" /\ EndsWithRatio(e.token, n, d) =>
                e.duration = Times(Fraction(n, d), abc.defaultLength)

\* C19's case: parsed to the end with a default unit length other than 1/8,
\* and a note with a full fraction suffix stored.
C19_Witness ==
    /\ abc.pc = "done"
    /\ abc.defaultLength = <<1, 4>>
    /\ \E e \in Stored :
          /\ e.id[1] = "note"
          /\ EndsWithRatio(e.token, 3, 2)
          /\ e.duration = <<3, 8>>

\* C19, as stated: for a note token with a full numerator/denominator suffix,
\* the element's duration is that ratio itself, whatever the default unit
\* length.
C19_RatioReplacesDefault ==
    \A e \in Stored :
        \A n, d \in 1..9 :
            e.id[1] = "note" /\ EndsWithRatio(e.token, n, d) =>
                e.duration = Fraction(n, d)

\* C20: every Note stored has midiNote in 0..127 and velocity in [0, 1].
C20_NotesInRange ==
    \A e \in Stored :
        e.id[1] = "note" =>
            /\ e.midiNote \in 0..127
            /\ 0 <= e.velocity[1] /\ e.velocity[1] <= e.velocity[2]

\* A field line: a single letter, a colon, a value (the /^[A-Za-z]:/ of
\* parseHeaders).
FieldLine(line) ==
    At(line, 0) \in UpperCase \cup LowerCase /\ At(line, 1) = ":"

\* C27: a field line adds no Note or Rest to any measure and does not advance
\* the running beat position: no step made on the tokens of a field line
\* changes the stored elements or beatPosition.
C27_FieldLinesAddNothing ==
    [][(abc.pc = "tokens" /\ FieldLine(abc.line)) =>
           /\ abc'.beatPosition = abc.beatPosition
           /\ Stored' = Stored]_vars

----------------------------------------------------------------------------
(* MusicXMLParser: documents, headers and measures *)

\* A document is what the parser's queries find in it: `key' is <<>> or
\* <<[fifths, mode]>>, `tempo' the tempo attribute of <sound> and `divisions'
\* the number in <divisions> (0 when absent), and a measure is the sequence
\* of its <note> elements, each with `rest' and `chord' (the element is
\* there), `pitch' (<<>> or <<[step, octave, alter]>>), `duration' (0 when
\* absent, n + 1 for a <duration> holding n) and `dynamics' ("" or the mark).
XmlNote(rest, chord, pitch, duration, dynamics) ==
    [rest |-> rest, chord |-> chord, pitch |-> pitch, duration |-> duration,
     dynamics |-> dynamics]

XmlDoc(key, tempo, divisions, measures) ==
    [root |-> TRUE, key |-> key, tempo |-> tempo, divisions |-> divisions,
     measures |-> measures]

\* A text that is no XML, or has neither score-partwise nor score-timewise.
XmlInvalid == [root |-> FALSE]

\* fifthsToKey without the Math.min clamp, which C24 must tell apart:
\* an index past the end of a table gives undefined.
FifthsToKeyUnclamped(fifths, mode) ==
    LET majorKeys == <<"C", "G", "D", "A", "E", "B", "F#", "C#">>
        majorFlats == <<"C", "F", "Bb", "Eb", "Ab", "Db", "Gb", "Cb">>
        minorKeys == <<"Am", "Em", "Bm", "F#m", "C#m", "G#m", "D#m", "A#m">>
        minorFlats == <<"Am", "Dm", "Gm", "Cm", "Fm", "Bbm", "Ebm", "Abm">>
        entry(table, index) ==
            IF index + 1 \in DOMAIN table THEN table[index + 1]
            ELSE "undefined"
    IN  IF mode = "minor"
        THEN IF fifths >= 0 THEN entry(minorKeys, fifths)
             ELSE entry(minorFlats, 0 - fifths)
        ELSE IF fifths >= 0 THEN entry(majorKeys, fifths)
             ELSE entry(majorFlats, 0 - fifths)

\* fifthsToKey: table[index] of the code is table[index + 1] here, and
\* "undefined" is what an index outside the table gives.
FifthsToKey(fifths, mode) ==
    LET majorKeys == <<"C", "G", "D", "A", "E", "B", "F#", "C#">>
        majorFlats == <<"C", "F", "Bb", "Eb", "Ab", "Db", "Gb", "Cb">>
        minorKeys == <<"Am", "Em", "Bm", "F#m", "C#m", "G#m", "D#m", "A#m">>
        minorFlats == <<"Am", "Dm", "Gm", "Cm", "Fm", "Bbm", "Ebm", "Abm">>
        entry(table, index) ==
            IF index + 1 \in DOMAIN table THEN table[index + 1]
            ELSE "undefined"
    IN  IF mode = "minor"
        THEN IF fifths >= 0 THEN entry(minorKeys, Min(fifths, 7))
             ELSE entry(minorFlats, Min(0 - fifths, 7))
        ELSE IF fifths >= 0 THEN entry(majorKeys, Min(fifths, 7))
             ELSE entry(majorFlats, Min(0 - fifths, 7))

\* pitchToMidi: stepMap[step.toUpperCase()] || 0.
PitchToMidi(step, octave, alter) ==
    LET stepMap == [x \in {"C", "D", "E", "F", "G", "A", "B"} |->
                       CASE x = "C" -> 0 [] x = "D" -> 2 [] x = "E" -> 4
                         [] x = "F" -> 5 [] x = "G" -> 7 [] x = "A" -> 9
                         [] x = "B" -> 11]
    IN  (octave + 1) * 12
            + (IF step \in DOMAIN stepMap THEN stepMap[step] ELSE 0) + alter

\* dynamicsToVelocity, as a fraction: the first mark found, 0.8 otherwise.
DynamicsToVelocity(dynamics) ==
    LET marks == <<"ppp", "pp", "p", "mp", "mf", "f", "ff", "fff">>
        velocities == << <<1, 5>>, <<3, 10>>, <<2, 5>>, <<11, 20>>, <<7, 10>>,
                         <<17, 20>>, <<19, 20>>, <<1, 1>> >>
        found == {i \in DOMAIN marks : marks[i] = dynamics}
    IN  IF found = {} THEN <<4, 5>>
        ELSE velocities[CHOOSE i \in found : TRUE]

\* The parser as constructed: divisions = 1, currentTempo = 120.
NewXmlParser == [divisions |-> 1, currentTempo |-> 120]

\* parseHeaders: the headers it returns (K and Q; 0 for no Q) and the
\* fields it leaves in the parser.
XmlParseHeaders(parser, doc) ==
    [headers |->
        [K |-> IF doc.key # <<>>
               THEN FifthsToKey(doc.key[1].fifths, doc.key[1].mode)
               ELSE "C",
         Q |-> doc.tempo],
     parser |->
        [divisions |-> IF doc.divisions # 0 THEN doc.divisions
                       ELSE parser.divisions,
         currentTempo |-> IF doc.tempo # 0 THEN doc.tempo
                          ELSE parser.currentTempo]]

\* The loop over the <note> elements of one measure, from note k on.  `chord'
\* in a stored element is an observer: the note it came from had <chord/>.
RECURSIVE XmlNotes(_, _, _, _, _, _)
XmlNotes(notes, k, divisions, currentTime, measure, counter) ==
    IF k > Len(notes) THEN [measure |-> measure, counter |-> counter]
    ELSE
      LET note == notes[k]
          duration == IF note.duration # 0
                      THEN Fraction(note.duration - 1, divisions)
                      ELSE <<1, 4>>
          cursor == Sum(currentTime, measure.duration)
          stored ==
              IF note.rest
              THEN << [id |-> <<"rest", counter>>, duration |-> duration,
                       startTime |-> cursor, measure |-> measure.number,
                       voice |-> "1", chord |-> note.chord] >>
              ELSE IF note.pitch # <<>>
              THEN << [id |-> <<"note", counter>>,
                       midiNote |-> PitchToMidi(note.pitch[1].step,
                                       note.pitch[1].octave,
                                       note.pitch[1].alter),
                       duration |-> duration,
                       startTime |-> IF note.chord
                                     THEN Difference(cursor, duration)
                                     ELSE cursor,
                       velocity |-> IF note.dynamics # ""
                                    THEN DynamicsToVelocity(note.dynamics)
                                    ELSE <<4, 5>>,
                       measure |-> measure.number,
                       voice |-> "1", chord |-> note.chord] >>
              ELSE <<>>
      IN  XmlNotes(notes, k + 1, divisions, currentTime,
                   [measure EXCEPT
                       !.elements = @ \o stored,
                       !.duration = IF note.chord THEN @
                                    ELSE Sum(@, duration)],
                   counter + Len(stored))

\* parseMeasures, from measure k on.
RECURSIVE XmlMeasures(_, _, _, _, _, _)
XmlMeasures(source, k, divisions, currentTime, counter, measures) ==
    IF k > Len(source) THEN measures
    ELSE Only({XmlMeasures(source, k + 1, divisions,
                           Sum(currentTime, done.measure.duration),
                           done.counter, Append(measures, done.measure)) :
               done \in {XmlNotes(source[k], 1, divisions, currentTime,
                                  [number |-> k, startTime |-> currentTime,
                                   duration |-> <<0, 1>>, elements |-> <<>>],
                                  counter)}})

\* errorResult; an empty Map is the function with no argument.
XmlErrorResult ==
    [headers |-> [K |-> "C", Q |-> 0], measures |-> <<>>,
     totalDuration |-> <<0, 1>>, voices |-> <<>>, errors |-> 1]

\* parse(): the result, and the parser after the call.
XmlParse(parser, doc) ==
    IF ~doc.root THEN [result |-> XmlErrorResult, parser |-> parser]
    ELSE Only({
           Only({[result |-> [headers |-> head.headers,
                              measures |-> measures,
                              totalDuration |-> TotalDuration(measures),
                              voices |-> <<>>, errors |-> 0],
                  parser |-> head.parser] :
                 measures \in {XmlMeasures(doc.measures, 1,
                                   head.parser.divisions, <<0, 1>>, 0, <<>>)}}) :
           head \in {XmlParseHeaders(parser, doc)}})

----------------------------------------------------------------------------
(* XmlSpec: one MusicXMLParser, parsing one document after the other *)

MaxFifths == 8      \* <fifths> from -MaxFifths to MaxFifths
MaxXmlNotes == 2    \* <note> elements in a measure
MaxXmlCalls == 2    \* parse() calls on the one parser

XmlModes == {"major", "minor", "dorian"}

XmlKeys ==
    {[fifths |-> f, mode |-> m] : f \in (0 - MaxFifths)..MaxFifths, m \in XmlModes}

MiddleC == <<[step |-> "C", octave |-> 4, alter |-> 0]>>

\* A pitched note, a longer one, chord notes of both lengths, a rest, a
\* chord-flagged rest, an unpitched note, and a note without <duration>.
XmlNoteKinds ==
    {XmlNote(FALSE, FALSE, MiddleC, 2, ""),
     XmlNote(FALSE, FALSE, [MiddleC EXCEPT ![1].step = "E"], 3, "f"),
     XmlNote(FALSE, TRUE, [MiddleC EXCEPT ![1].step = "G"], 2, ""),
     XmlNote(FALSE, TRUE, [MiddleC EXCEPT ![1].alter = 1], 3, ""),
     XmlNote(TRUE, FALSE, <<>>, 2, ""),
     XmlNote(TRUE, TRUE, <<>>, 2, ""),
     XmlNote(FALSE, FALSE, <<>>, 2, ""),
     XmlNote(FALSE, FALSE, MiddleC, 0, "")}

XmlDivisions == {0, 1, 2}

XmlDocs ==
    {XmlInvalid}
        \cup {XmlDoc(<<key>>, 0, 0, <<>>) : key \in XmlKeys}
        \cup {XmlDoc(<<>>, tempo, divisions, <<notes>>) :
                 tempo \in {0, 90}, divisions \in XmlDivisions,
                 notes \in SeqsUpTo(XmlNoteKinds, MaxXmlNotes)}
        \cup {XmlDoc(<<>>, 0, divisions,
                     << <<XmlNote(FALSE, FALSE, MiddleC, 2, "")>>, notes >>) :
                 divisions \in XmlDivisions,
                 notes \in SeqsUpTo(XmlNoteKinds, MaxXmlNotes)}

\* `calls', `doc' and `result' are observers: the parse() calls made, and
\* the document and the result of a call that has just returned.
XmlInit ==
    /\ PlaybackAtRest
    /\ midi = NoMidi
    /\ abc = NoAbc
    /\ xml = [pc |-> "ready", parser |-> NewXmlParser, calls |-> 0,
              doc |-> XmlInvalid, result |-> XmlErrorResult]

XmlParseCall ==
    /\ xml.pc = "ready"
    /\ xml.calls < MaxXmlCalls
    /\ \E doc \in XmlDocs :
          LET out == XmlParse(xml.parser, doc)
          IN  xml' = [xml EXCEPT !.pc = "returned", !.parser = out.parser,
                                 !.calls = @ + 1, !.doc = doc,
                                 !.result = out.result]
    /\ UNCHANGED <<playback, faults, midi, abc>>

\* The caller takes the result; the parser is ready for the next call.
XmlTakeResult ==
    /\ xml.pc = "returned"
    /\ xml' = [xml EXCEPT !.pc = "ready", !.doc = XmlInvalid,
                           !.result = XmlErrorResult]
    /\ UNCHANGED <<playback, faults, midi, abc>>

XmlNext == XmlParseCall \/ XmlTakeResult

XmlSpec == XmlInit /\ [][XmlNext]_vars

----------------------------------------------------------------------------
(* Claims about MusicXMLParser, checked under XmlSpec *)

\* The key element of a document whose parse() has just returned.
ReturnedKeys ==
    IF xml.pc = "returned" /\ xml.doc.root THEN Range(xml.doc.key) ELSE {}

\* C24: fifthsToKey maps +3 major to "A", -2 major to "Bb" and 0 minor to
\* "Am"; for every integer fifths it returns the entry at index
\* min(|fifths|, 7) of the sharp-side (fifths >= 0) or flat-side table of
\* the mode, never an undefined value.
C24_KeyOfFifths ==
    \A key \in ReturnedKeys :
        LET K == xml.result.headers.K
            index == Min(Abs(key.fifths), 7) + 1
            sharps == key.fifths >= 0
        IN  /\ key = [fifths |-> 3, mode |-> "major"] => K = "A"
            /\ key = [fifths |-> -2, mode |-> "major"] => K = "Bb"
            /\ key = [fifths |-> 0, mode |-> "minor"] => K = "Am"
            /\ (key.mode = "major" /\ sharps)
                  => K = <<"C", "G", "D", "A", "E", "B", "F#", "C#">>[index]
            /\ (key.mode = "major" /\ ~sharps)
                  => K = <<"C", "F", "Bb", "Eb", "Ab", "Db", "Gb", "Cb">>[index]
            /\ (key.mode = "minor" /\ sharps)
                  => K = <<"Am", "Em", "Bm", "F#m", "C#m", "G#m", "D#m",
                           "A#m">>[index]
            /\ (key.mode = "minor" /\ ~sharps)
                  => K = <<"Am", "Dm", "Gm", "Cm", "Fm", "Bbm", "Ebm",
                           "Abm">>[index]
            /\ K # "undefined"

\* C24's case: a document with more than seven flats, in minor, was parsed.
C24_Witness ==
    /\ [fifths |-> 0 - MaxFifths, mode |-> "minor"] \in ReturnedKeys
    /\ xml.result.headers.K = "Abm"

\* The measures of the result that has just been returned.
ReturnedMeasures ==
    IF xml.pc = "returned" THEN xml.result.measures ELSE <<>>

\* a <= b for fractions with positive denominators.
AtMost(a, b) == a[1] * b[2] <= b[1] * a[2]

\* C25: a chord-flagged note's startTime equals the startTime of the element
\* stored just before it in the same measure, whatever the two durations,
\* and is never earlier than the measure's start; the elements of a measure
\* are non-decreasing in start time.
C25_ChordSharesStart ==
    \A m \in DOMAIN ReturnedMeasures :
        LET measure == ReturnedMeasures[m]
            elements == measure.elements
        IN  /\ \A k \in DOMAIN elements :
                  (elements[k].chord /\ elements[k].id[1] = "note") =>
                      /\ k > 1 => elements[k].startTime
                                      = elements[k - 1].startTime
                      /\ AtMost(measure.startTime, elements[k].startTime)
            /\ \A k \in 2..Len(elements) :
                  AtMost(elements[k - 1].startTime, elements[k].startTime)

\* The sum of the durations of the elements that are no chord members.
RECURSIVE NonChordDuration(_)
NonChordDuration(elements) ==
    IF elements = <<>> THEN <<0, 1>>
    ELSE Sum(NonChordDuration(Tail(elements)),
             IF Head(elements).chord THEN <<0, 1>>
             ELSE Head(elements).duration)

\* C21: in the MOM returned, each measure's duration is the sum of the
\* durations of the non-chord elements stored in it, and totalDuration is the
\* sum of the measures' durations.
C21_DurationsAddUp ==
    xml.pc = "returned" =>
        /\ \A m \in DOMAIN ReturnedMeasures :
              ReturnedMeasures[m].duration
                  = NonChordDuration(ReturnedMeasures[m].elements)
        /\ xml.result.totalDuration = TotalDuration(ReturnedMeasures)

\* The elements of the measures, in order.
RECURSIVE AllElements(_)
AllElements(measures) ==
    IF measures = <<>> THEN <<>>
    ELSE Head(measures).elements \o AllElements(Tail(measures))

\* C23: in the MOM returned, voices[v] is exactly the sequence, in order, of
\* the measures' elements whose voice is v, and every element stored in a
\* measure appears in the index.
C23_VoicesAreAView ==
    xml.pc = "returned" =>
        LET all == AllElements(ReturnedMeasures)
            voices == xml.result.voices
        IN  /\ \A k \in DOMAIN all : all[k].voice \in DOMAIN voices
            /\ \A v \in DOMAIN voices :
                  voices[v] = SelectSeq(all, LAMBDA element : element.voice = v)

\* C22: parsing a document on a parser that has parsed before gives the
\* result that a fresh parser gives.
C22_NoStateAcrossCalls ==
    xml.pc = "returned" =>
        xml.result = XmlParse(NewXmlParser, xml.doc).result

====
